---- MODULE Spec2Model ----
(***************************************************************************)
(* A model of tg-mock, a mock Telegram Bot API server: the update queue,   *)
(* the scenario engine, the webhook registry, the token registry, the      *)
(* request inspector and the bot-plane handler that composes them.         *)
(*                                                                         *)
(* Go values that JSON decoding or callers hand to the program keep their  *)
(* dynamic type: a value is a pair <<type, payload>>, so that a type       *)
(* assertion such as x.(int64) is something the model can fail.            *)
(***************************************************************************)
EXTENDS Integers, Sequences, FiniteSets, TLC

\* ------------------------------------------------------------------ the state

VARIABLES
    registryEnabled,    \* BotHandler.registryEnabled
    tokens,             \* tokens.Registry: token -> status
    scenarios,          \* scenario.Engine.scenarios, in insertion order
    engineIdCounter,    \* scenario.Engine.idCounter
    updates,            \* updates.Queue.updates, in insertion order
    queueIdCounter,     \* updates.Queue.idCounter
    webhooks,           \* webhook.Registry.webhooks: token -> config
    requests,           \* inspector.Recorder.requests
    recorderIdCounter,  \* inspector.Recorder.idCounter
    faker,              \* the faker's counters
    fakers,             \* fakers made apart from the server, by name
    builtinErrors,      \* scenario.BuiltinErrors: name -> the shared *ErrorResponse
    thr,                \* the handler goroutines and where each one stands
    log,                \* history: the exchanges completed so far, in order
    hist,               \* history: what the callers of the bare queue observed
    calls,              \* history: how many calls of each kind were made
    budget              \* how many calls of each kind a behaviour is explored for

vars == <<registryEnabled, tokens, scenarios, engineIdCounter, updates,
          queueIdCounter, webhooks, requests, recorderIdCounter, faker,
          fakers, builtinErrors, thr, log, hist, calls, budget>>

\* ------------------------------------------------------------------ bounds

MaxAdds == 3        \* Queue.Add calls explored in a behaviour
MaxId == 2          \* largest update_id a caller supplies, largest offset asked
MaxQueueOps == 2    \* Get / Acknowledge / Clear calls explored on the bare queue

\* ----------------------------------------------------------- dynamic values

I64(n) == <<"int64", n>>
F64(n) == <<"float64", n>>
Str(s) == <<"string", s>>
Bool(b) == <<"bool", b>>

TypeOf(v) == v[1]
ValOf(v) == v[2]

\* ------------------------------------------------------------- update queue
\* An update is a map: a function whose domain holds "update_id" when the key
\* is present and "payload" for the rest of the opaque JSON object.

HasUpdateId(u) == "update_id" \in DOMAIN u

\* Queue.Add under q.mu: assign the next counter value when the key is absent,
\* append, then return update["update_id"].(int64). The assertion runs after
\* the append, so a non-int64 id panics with the update already queued.
QueueAdd(q, ctr, u) ==
    LET absent == ~HasUpdateId(u)
        ctr2 == IF absent THEN ctr + 1 ELSE ctr
        stored == IF absent THEN [update_id |-> I64(ctr2), payload |-> u.payload]
                  ELSE u
    IN  [updates |-> Append(q, stored), idCounter |-> ctr2,
         panic |-> TypeOf(stored.update_id) # "int64",
         ret |-> ValOf(stored.update_id)]

\* The loop of Queue.Get from position i on: each element's id is asserted to
\* be int64 before it is filtered; the loop breaks once len(result) >= limit,
\* which is tested only after an append.
RECURSIVE QueueGetFrom(_, _, _, _, _)
QueueGetFrom(q, i, offset, limit, acc) ==
    IF i > Len(q) THEN [panic |-> FALSE, result |-> acc]
    ELSE IF TypeOf(q[i].update_id) # "int64" THEN [panic |-> TRUE, result |-> <<>>]
    ELSE IF offset = 0 \/ ValOf(q[i].update_id) >= offset
         THEN LET acc2 == Append(acc, q[i])
              IN  IF Len(acc2) >= limit THEN [panic |-> FALSE, result |-> acc2]
                  ELSE QueueGetFrom(q, i + 1, offset, limit, acc2)
         ELSE QueueGetFrom(q, i + 1, offset, limit, acc)

QueueGet(q, offset, limit) == QueueGetFrom(q, 1, offset, limit, <<>>)

\* Queue.Acknowledge: the loop asserts every id to be int64; a panic leaves
\* q.updates as it was, since the new slice is assigned only after the loop.
AllInt64(q) == \A i \in DOMAIN q : TypeOf(q[i].update_id) = "int64"

\* A faulty Acknowledge, which also drops the update whose id is the offset.
QueueAcknowledgeStrict(q, offset) ==
    IF ~AllInt64(q) THEN [panic |-> TRUE, updates |-> q]
    ELSE [panic |-> FALSE,
          updates |-> SelectSeq(q, LAMBDA u : ValOf(u.update_id) > offset)]

QueueAcknowledge(q, offset) ==
    IF ~AllInt64(q) THEN [panic |-> TRUE, updates |-> q]
    ELSE [panic |-> FALSE,
          updates |-> SelectSeq(q, LAMBDA u : ValOf(u.update_id) >= offset)]

\* A Clear that leaves the queue as it was.
QueueClearNothing(q) == q

QueueClear(q) == <<>>

QueuePending(q) == Len(q)


\* ---------------------------------------------------------- scenario engine
\* A nil pointer is the empty sequence, a non-nil one a one-element sequence.

Nil == <<>>
Ptr(x) == <<x>>
IsNil(p) == Len(p) = 0
Deref(p) == p[1]

\* Go's == on two interface values: equal dynamic types and equal values.
ValEq(a, b) == TypeOf(a) = TypeOf(b) /\ ValOf(a) = ValOf(b)

Matches(s, method, params) ==
    /\ (s.Method = "*" \/ s.Method = method)
    /\ \A k \in DOMAIN s.Match :
          k \in DOMAIN params /\ ValEq(params[k], s.Match[k])

\* An Exhausted that lets a bounded scenario be used once more.
ExhaustedLate(s) == IF s.Times = 0 THEN FALSE ELSE s.used > s.Times

Exhausted(s) == IF s.Times = 0 THEN FALSE ELSE s.used >= s.Times

\* Scenario.Use: one atomic add on the counter of a bounded scenario.
Use(s) == IF s.Times = 0 THEN s ELSE [s EXCEPT !.used = @ + 1]

\* Go's != on two interface values panics when both hold a value of the same
\* uncomparable type: a decoded JSON object or array.
Uncomparable(a, b) == TypeOf(a) = TypeOf(b) /\ TypeOf(a) \in {"map", "list"}

\* Scenario.Matches panics: the method fits and a match key is in the params
\* with an uncomparable value on both sides. (With one key in the match map
\* the order in which Go ranges over the map plays no part.)
MatchesPanics(s, method, params) ==
    /\ (s.Method = "*" \/ s.Method = method)
    /\ \E k \in DOMAIN s.Match :
          k \in DOMAIN params /\ Uncomparable(params[k], s.Match[k])

\* Engine.Find panics: the loop comes to a scenario on which Matches panics
\* before it comes to one it returns.
FindPanics(scn, method, params) ==
    \E i \in DOMAIN scn :
        /\ MatchesPanics(scn[i], method, params)
        /\ \A j \in 1..(i - 1) :
              /\ ~MatchesPanics(scn[j], method, params)
              /\ ~(Matches(scn[j], method, params) /\ ~Exhausted(scn[j]))

\* What Use returns, were the bound tested against the count before the add.
UseReturnsBeforeAdd(s) == IF s.Times = 0 THEN TRUE ELSE s.used <= s.Times

\* What Use returns: true for an unlimited scenario, else whether the counter
\* after the add is within Times.
UseReturns(s) == IF s.Times = 0 THEN TRUE ELSE Use(s).used <= s.Times

\* A Find that returns the last matching scenario instead of the first.
FindLast(scn, method, params) ==
    LET hits == {i \in DOMAIN scn :
                    Matches(scn[i], method, params) /\ ~Exhausted(scn[i])}
    IN  IF hits = {} THEN 0 ELSE CHOOSE i \in hits : \A j \in hits : j <= i

\* Engine.Find: index of the first matching, non-exhausted scenario, 0 for nil.
RECURSIVE FindFrom(_, _, _, _)
FindFrom(scn, i, method, params) ==
    IF i > Len(scn) THEN 0
    ELSE IF Matches(scn[i], method, params) /\ ~Exhausted(scn[i]) THEN i
    ELSE FindFrom(scn, i + 1, method, params)

Find(scn, method, params) == FindFrom(scn, 1, method, params)

\* IsError / HasResponseData are called by the handler but defined in a file
\* that is not part of the sources at hand: a rule "carries an error response"
\* when its response is set, and overrides when response_data is not empty.
IsError(s) == ~IsNil(s.Response)

HasResponseData(s) == DOMAIN s.ResponseData # {}

\* Engine.Add: generate "scenario-N" for an empty ID, append.
ScenarioName(n) == <<"scenario", n>>

EngineAdd(scn, ctr, s) ==
    LET gen == s.ID = Nil
        ctr2 == IF gen THEN ctr + 1 ELSE ctr
        s2 == IF gen THEN [s EXCEPT !.ID = ScenarioName(ctr2)] ELSE s
    IN  [scenarios |-> Append(scn, s2), idCounter |-> ctr2, id |-> s2.ID]

\* Engine.Remove: the first scenario with the ID leaves the list.
EngineRemove(scn, id) ==
    LET hits == {i \in DOMAIN scn : scn[i].ID = id}
    IN  IF hits = {} THEN [removed |-> FALSE, scenarios |-> scn]
        ELSE LET i == CHOOSE k \in hits : \A j \in hits : k <= j
             IN  [removed |-> TRUE,
                  scenarios |-> SubSeq(scn, 1, i - 1) \o SubSeq(scn, i + 1, Len(scn))]

EngineClear(scn) == <<>>

\* ------------------------------------------------------------ token registry

WellFormedTokens == {"123:abc", "456:def"}
MalformedTokens == {"invalid"}

\* tokenPattern ^\d+:[A-Za-z0-9_-]+$ on the tokens of the model.
ValidateFormat(token) == token \in WellFormedTokens

RegistryRegister(reg, token, status) ==
    [t \in DOMAIN reg \cup {token} |-> IF t = token THEN status ELSE reg[t]]

\* A faulty Delete, which empties the registry.
RegistryDeleteAll(reg, token) == [t \in {} |-> ""]

RegistryDelete(reg, token) == [t \in DOMAIN reg \ {token} |-> reg[t]]

RegistryUpdateStatus(reg, token, status) ==
    IF token \in DOMAIN reg THEN [reg EXCEPT ![token] = status] ELSE reg

\* --------------------------------------------------------- webhook registry

WebhookSet(wh, token, cfg) ==
    [t \in DOMAIN wh \cup {token} |-> IF t = token THEN cfg ELSE wh[t]]

WebhookDelete(wh, token) == [t \in DOMAIN wh \ {token} |-> wh[t]]

\* A faulty IsActive, which never sees a webhook.
IsActiveNever(wh, token) == FALSE

IsActive(wh, token) == token \in DOMAIN wh /\ wh[token].URL # ""

\* Registry.GetInfo with the optional fields the model's configs can carry.
GetInfo(wh, token, pendingCount) ==
    IF token \notin DOMAIN wh
    THEN [url |-> "", has_custom_certificate |-> FALSE,
          pending_update_count |-> pendingCount]
    ELSE [url |-> wh[token].URL, has_custom_certificate |-> FALSE,
          pending_update_count |-> pendingCount]

\* ------------------------------------------------------------- the inspector

\* A Record that numbers a record by its place in the list instead of by the
\* counter.
RecorderRecordByPlace(reqs, ctr, rec) ==
    [requests |-> Append(reqs, [rec EXCEPT !.ID = Len(reqs) + 1]), idCounter |-> ctr + 1]

RecorderRecord(reqs, ctr, rec) ==
    [requests |-> Append(reqs, [rec EXCEPT !.ID = ctr + 1]), idCounter |-> ctr + 1]

RecorderClear(reqs) == <<>>

\* ------------------------------------------------------------ method table
\* The generated method table (gen.Methods) is not part of the sources at
\* hand; the model carries the shape it has for three methods: the name, the
\* primary return type and the required fields in declaration order.

Methods == {"getMe", "sendMessage", "getUpdates"}

MethodReturns(method) ==
    CASE method = "sendMessage" -> "Message"
      [] method = "getMe" -> "User"
      [] OTHER -> "Array of Update"

MethodRequired(method) ==
    IF method = "sendMessage" THEN <<"chat_id", "text">> ELSE <<>>

\* Validator.Validate: the first required field missing from params, or nil.
RECURSIVE ValidateFrom(_, _, _)
ValidateFrom(fields, i, params) ==
    IF i > Len(fields) THEN Nil
    ELSE IF fields[i] \notin DOMAIN params THEN Ptr(fields[i])
    ELSE ValidateFrom(fields, i + 1, params)

Validate(method, params) == ValidateFrom(MethodRequired(method), 1, params)

\* ------------------------------------------------------- request parameters
\* A request carries query values (strings) and a body: none, a JSON object
\* (numbers decode to float64), bytes that are not JSON, or a form.

EmptyMap == [k \in {} |-> Nil]

Overlay(base, over) ==
    [k \in DOMAIN base \cup DOMAIN over |->
        IF k \in DOMAIN over THEN over[k] ELSE base[k]]

QueryParams(r) == [k \in DOMAIN r.query |-> Str(r.query[k])]

\* parseParams: query values first, then the body decoded over them.
parseParams(r) ==
    CASE r.body.kind = "json" ->
            [err |-> FALSE, params |-> Overlay(QueryParams(r), r.body.fields)]
      [] r.body.kind = "badjson" ->
            [err |-> TRUE, params |-> EmptyMap]
      [] r.body.kind = "form" ->
            [err |-> FALSE, params |-> Overlay(QueryParams(r), r.body.fields)]
      [] OTHER -> [err |-> FALSE, params |-> QueryParams(r)]

parseParamsOrEmpty(r) ==
    LET p == parseParams(r) IN IF p.err THEN EmptyMap ELSE p.params

\* json.Unmarshal of a query string into an integer (parseInt64 / parseInt),
\* and strconv.Atoi, on the decimal strings of the model; anything else fails.
DecimalStrings == {"0", "1", "2", "3", "4", "5"}

DecimalValue(s) ==
    CASE s = "0" -> 0 [] s = "1" -> 1 [] s = "2" -> 2
      [] s = "3" -> 3 [] s = "4" -> 4 [] OTHER -> 5

parseInt64(s) ==
    IF s \in DecimalStrings THEN [err |-> FALSE, n |-> DecimalValue(s)]
    ELSE [err |-> TRUE, n |-> 0]

\* strconv.Atoi on the header values of the model.
Atoi(s) ==
    IF s \in DecimalStrings THEN [err |-> FALSE, n |-> DecimalValue(s)]
    ELSE IF s = "-1" THEN [err |-> FALSE, n |-> 0 - 1]
    ELSE [err |-> TRUE, n |-> 0]

\* ------------------------------------------------------------- the responses
\* A response is the HTTP status and the JSON envelope, a function from the
\* keys present to their values; a body that was never written has no keys.

\* json encoding of APIResponse: result, error_code and description are
\* omitempty, so a nil result, a zero code or an empty description is left out.
EncodeAPIResponse(ok, result, code, desc) ==
    LET keys == {"ok"} \cup (IF IsNil(result) THEN {} ELSE {"result"})
                       \cup (IF code = 0 THEN {} ELSE {"error_code"})
                       \cup (IF desc = "" THEN {} ELSE {"description"})
    IN  [k \in keys |->
            CASE k = "ok" -> Bool(ok)
              [] k = "result" -> Deref(result)
              [] k = "error_code" -> I64(code)
              [] OTHER -> Str(desc)]

\* http.ResponseWriter.WriteHeader accepts the three-digit codes only; any
\* other value panics. The router's Recoverer middleware answers a panicking
\* handler with 500 and no body.
WriteHeaderPanics(code) == code < 100 \/ code > 999

RecovererResponse == [status |-> 500, body |-> EmptyMap]

writeError(code, desc) ==
    IF WriteHeaderPanics(code) THEN [panic |-> TRUE, resp |-> RecovererResponse]
    ELSE [panic |-> FALSE,
          resp |-> [status |-> code,
                    body |-> EncodeAPIResponse(FALSE, Nil, code, desc)]]

writeSuccess(result) ==
    [status |-> 200, body |-> EncodeAPIResponse(TRUE, result, 0, "")]

\* The map written and recorded for a scenario error: ok, error_code and
\* description always, parameters.retry_after when RetryAfter > 0.
ErrorResponseMap(e) ==
    LET keys == {"ok", "error_code", "description"}
                \cup (IF e.RetryAfter > 0 THEN {"parameters"} ELSE {})
    IN  [k \in keys |->
            CASE k = "ok" -> Bool(FALSE)
              [] k = "error_code" -> I64(e.ErrorCode)
              [] k = "description" -> Str(e.Description)
              [] OTHER -> <<"map", [retry_after |-> I64(e.RetryAfter)]>>]

writeErrorResponse(e) ==
    IF WriteHeaderPanics(e.ErrorCode)
    THEN [panic |-> TRUE, resp |-> RecovererResponse]
    ELSE [panic |-> FALSE,
          resp |-> [status |-> e.ErrorCode, body |-> ErrorResponseMap(e)]]

\* --------------------------------------------------------- built-in errors

BuiltinNames == {"rate_limit", "bot_blocked", "chat_not_found"}

\* scenario.BuiltinErrors as the package declares it: the entries of the table
\* that the requests explored here name.
BuiltinErrors ==
    [name \in BuiltinNames |->
        CASE name = "rate_limit" ->
                [ErrorCode |-> 429,
                 Description |-> "Too Many Requests: retry after 30",
                 RetryAfter |-> 30]
          [] name = "bot_blocked" ->
                [ErrorCode |-> 403,
                 Description |-> "Forbidden: bot was blocked by the user",
                 RetryAfter |-> 0]
          [] OTHER ->
                [ErrorCode |-> 400,
                 Description |-> "Bad Request: chat not found",
                 RetryAfter |-> 0]]

\* scenario.GetBuiltinError: the table's pointer for the name, nil for a name
\* that is not in the table.
GetBuiltinError(name) ==
    IF name \in DOMAIN builtinErrors THEN Ptr(builtinErrors[name]) ELSE Nil

\* The error a header scenario answers with: nil for an unknown name; the
\* X-TG-Mock-Retry-After header replaces RetryAfter when strconv.Atoi reads it.
HeaderScenarioError(r) ==
    LET e == GetBuiltinError(r.scenarioHdr)
        ra == Atoi(r.retryHdr)
    IN  IF IsNil(e) THEN Nil
        ELSE IF r.retryHdr # "" /\ ~ra.err
             THEN Ptr([Deref(e) EXCEPT !.RetryAfter = ra.n])
             ELSE e

\* The table after handleHeaderScenarioWithRecording, written through the
\* pointer instead of into a copy: the override would stay in the table.
HeaderScenarioTableInPlace(r) ==
    LET ra == Atoi(r.retryHdr)
    IN  IF r.scenarioHdr \in DOMAIN builtinErrors /\ r.retryHdr # "" /\ ~ra.err
        THEN [builtinErrors EXCEPT ![r.scenarioHdr].RetryAfter = ra.n]
        ELSE builtinErrors

\* The table after handleHeaderScenarioWithRecording: the override goes into a
\* new ErrorResponse and the entry the table points to is not written.
HeaderScenarioTable(r) == builtinErrors

\* ------------------------------------------------------------------ the faker
\* The faker's state is its counters. Generated fields that come from the
\* random source and play no part in any property (names, usernames, dates)
\* are left out of the generated maps; the random choice between "group" and
\* "supergroup" is the argument rnd.

UserIdBase == 100000000

\* The source's boundary for channel ids is -1000000000000, beyond the range
\* of the checker's integers; the model's boundary stands for it, and the
\* model's chat ids are chosen on either side of it.
ChannelIdLimit == 0 - 1000000000

FakerNew == [messageIDCounter |-> 0, userIDCounter |-> 0, chatIDCounter |-> 0]

\* The override a generator applies from params[key].(float64) / .(int64).
IntParam(params, key, default) ==
    IF key \in DOMAIN params /\ TypeOf(params[key]) \in {"float64", "int64"}
    THEN ValOf(params[key]) ELSE default

generateChat(f, params, rnd) ==
    LET f2 == [f EXCEPT !.chatIDCounter = @ + 1]
        chatID == IntParam(params, "chat_id", f2.chatIDCounter)
        chatType == IF chatID >= 0 THEN "private"
                    ELSE IF chatID < ChannelIdLimit THEN "channel"
                    ELSE IF rnd = 0 THEN "group" ELSE "supergroup"
    IN  [faker |-> f2, result |-> [id |-> I64(chatID), type |-> Str(chatType)]]

generateUser(f, params) ==
    LET f2 == [f EXCEPT !.userIDCounter = @ + 1]
        userID == IntParam(params, "user_id", f2.userIDCounter + UserIdBase)
    IN  [faker |-> f2, result |-> [id |-> I64(userID), is_bot |-> Bool(FALSE)]]

\* generateMessage: chat_id is taken from params only as a number (1
\* otherwise); text is reflected only when it is a string.
generateMessage(f, params, rnd) ==
    LET f1 == [f EXCEPT !.messageIDCounter = @ + 1]
        chatID == IntParam(params, "chat_id", 1)
        chat == generateChat(f1, [chat_id |-> I64(chatID)], rnd)
        hasFrom == ValOf(chat.result.type) # "channel"
        from == generateUser(chat.faker, params)
        hasText == "text" \in DOMAIN params /\ TypeOf(params["text"]) = "string"
        keys == {"message_id", "chat"}
                \cup (IF hasFrom THEN {"from"} ELSE {})
                \cup (IF hasText THEN {"text"} ELSE {})
    IN  [faker |-> IF hasFrom THEN from.faker ELSE chat.faker,
         result |-> [k \in keys |->
                        CASE k = "message_id" -> I64(f1.messageIDCounter)
                          [] k = "chat" -> <<"map", chat.result>>
                          [] k = "from" -> <<"map", from.result>>
                          [] OTHER -> params["text"]]]

\* mergeOverrides: recurse where both sides hold maps, replace otherwise.
RECURSIVE mergeOverrides(_, _)
mergeOverrides(result, overrides) ==
    [k \in DOMAIN result \cup DOMAIN overrides |->
        IF k \notin DOMAIN overrides THEN result[k]
        ELSE IF /\ TypeOf(overrides[k]) = "map"
                /\ k \in DOMAIN result
                /\ TypeOf(result[k]) = "map"
             THEN <<"map", mergeOverrides(ValOf(result[k]), ValOf(overrides[k]))>>
             ELSE overrides[k]]

\* Faker.GenerateWithOverrides for the object types the method table returns:
\* run the type's generator, then merge a non-nil overrides map.
GenerateWithOverrides(f, typeName, params, overrides, rnd) ==
    LET g == IF typeName = "Message" THEN generateMessage(f, params, rnd)
             ELSE IF typeName = "Chat" THEN generateChat(f, params, rnd)
             ELSE generateUser(f, params)
    IN  [faker |-> g.faker,
         result |-> IF IsNil(overrides) THEN <<"map", g.result>>
                    ELSE <<"map", mergeOverrides(g.result, Deref(overrides))>>]

Threads == {1, 2}

Idle == [pc |-> "idle"]

\* The state after server.New with the tokens cfgTokens in the configuration
\* and no scenario in it: the registry is enabled when a token is configured.
ServerNew(cfgTokens) ==
    /\ registryEnabled = (DOMAIN cfgTokens # {})
    /\ tokens = cfgTokens
    /\ scenarios = <<>>
    /\ engineIdCounter = 0
    /\ updates = <<>>
    /\ queueIdCounter = 0
    /\ webhooks = EmptyMap
    /\ requests = <<>>
    /\ recorderIdCounter = 0
    /\ faker = FakerNew
    /\ fakers = EmptyMap
    /\ builtinErrors = BuiltinErrors
    /\ thr = [t \in Threads |-> Idle]
    /\ log = <<>>
    /\ hist = [addRets |-> <<>>, acked |-> Nil, got |-> Nil, last |-> "none"]
    /\ calls = [adds |-> 0, ops |-> 0, reqs |-> 0, ctls |-> 0, scens |-> 0]

\* A behaviour is explored up to a number of bot-plane requests and a number
\* of control-plane calls, which its initial state fixes.
Budget(maxReqs, maxCtls) ==
    budget = [reqs |-> maxReqs, ctls |-> maxCtls]

serverVars == <<registryEnabled, tokens, scenarios, engineIdCounter, webhooks,
                requests, recorderIdCounter, faker, fakers, builtinErrors,
                thr, log, budget>>

\* ------------------------------------------------- the update queue on its own
\* The queue's methods each run under its mutex, so concurrent callers are any
\* order of the calls. Callers hand Add updates without an id, with an int64
\* id, or with the float64 id that a decoded JSON body carries.

PresetIds == {I64(n) : n \in 1..MaxId} \cup {F64(MaxId)}
Offsets == 0..(MaxId + 1)
DefaultLimit == 100
Limits == {0, 1, DefaultLimit}

\* The update a caller builds for its n-th Add: the payload tells updates apart.
NewUpdate(id, n) ==
    IF IsNil(id) THEN [payload |-> n]
    ELSE [update_id |-> Deref(id), payload |-> n]

QAdd(id) ==
    /\ calls.adds < MaxAdds
    /\ LET r == QueueAdd(updates, queueIdCounter, NewUpdate(id, calls.adds + 1))
       IN  /\ updates' = r.updates
           /\ queueIdCounter' = r.idCounter
           /\ hist' = [addRets |-> IF r.panic THEN hist.addRets
                                   ELSE Append(hist.addRets, r.ret),
                       acked |-> Nil, got |-> Nil, last |-> "Add"]
    /\ calls' = [calls EXCEPT !.adds = @ + 1]
    /\ UNCHANGED serverVars

QAcknowledge(offset) ==
    /\ calls.ops < MaxQueueOps
    /\ LET r == QueueAcknowledge(updates, offset)
       IN  /\ updates' = r.updates
           /\ hist' = IF r.panic
                      THEN [hist EXCEPT !.got = Nil, !.last = "panic"]
                      ELSE [hist EXCEPT
                              !.acked = Ptr([offset |-> offset, before |-> updates]),
                              !.got = Nil, !.last = "Acknowledge"]
    /\ calls' = [calls EXCEPT !.ops = @ + 1]
    /\ UNCHANGED <<queueIdCounter, serverVars>>

QGet(offset, limit) ==
    /\ calls.ops < MaxQueueOps
    /\ LET r == QueueGet(updates, offset, limit)
       IN  hist' = IF r.panic
                   THEN [hist EXCEPT !.got = Nil, !.last = "panic"]
                   ELSE [hist EXCEPT
                           !.got = Ptr([offset |-> offset, limit |-> limit,
                                        result |-> r.result]),
                           !.last = "Get"]
    /\ calls' = [calls EXCEPT !.ops = @ + 1]
    /\ UNCHANGED <<updates, queueIdCounter, serverVars>>

QClear ==
    /\ calls.ops < MaxQueueOps
    /\ updates' = QueueClear(updates)
    /\ hist' = [hist EXCEPT !.got = Nil, !.last = "Clear"]
    /\ calls' = [calls EXCEPT !.ops = @ + 1]
    /\ UNCHANGED <<queueIdCounter, serverVars>>

NextQueue ==
    \/ \E id \in {Nil} \cup {Ptr(i) : i \in PresetIds} : QAdd(id)
    \/ \E offset \in Offsets : QAcknowledge(offset)
    \/ \E offset \in Offsets, limit \in Limits : QGet(offset, limit)
    \/ QClear

InitQueue == ServerNew(EmptyMap) /\ Budget(0, 0)

SpecQueue == InitQueue /\ [][NextQueue]_vars

\* --------------------------------------------------- properties of the queue

IdOf(u) == ValOf(u.update_id)

\* C4: of any two Add calls on the queue, with or without an update_id in the
\* update, the one applied later returns a strictly greater update_id.
C4_LaterAddYieldsGreaterId ==
    \A i, j \in DOMAIN hist.addRets :
        i < j => hist.addRets[i] < hist.addRets[j]

\* Two Adds have returned, the second without an id of its own.
C4_TwoAddsReturned ==
    /\ Len(hist.addRets) >= 2
    /\ hist.last = "Add"
    /\ updates[Len(updates)].payload = calls.adds
    /\ IdOf(updates[Len(updates)]) = queueIdCounter

\* C5: after a completed Acknowledge(offset) and no Add since, Get(0, limit)
\* returns only updates with update_id >= offset; and right after the
\* Acknowledge every update that was queued with update_id >= offset is still
\* queued, in the order it had.
C5_AcknowledgeKeepsFromOffset ==
    /\ (hist.last = "Get" /\ ~IsNil(hist.acked) /\ Deref(hist.got).offset = 0) =>
          \A i \in DOMAIN Deref(hist.got).result :
              IdOf(Deref(hist.got).result[i]) >= Deref(hist.acked).offset
    /\ hist.last = "Acknowledge" =>
          LET before == Deref(hist.acked).before
              offset == Deref(hist.acked).offset
          IN  /\ \A i \in DOMAIN before :
                    IdOf(before[i]) >= offset =>
                        \E k \in DOMAIN updates : updates[k] = before[i]
              /\ \A i, j \in DOMAIN before :
                    (i < j /\ IdOf(before[i]) >= offset /\ IdOf(before[j]) >= offset) =>
                        \E k, l \in DOMAIN updates :
                            k < l /\ updates[k] = before[i] /\ updates[l] = before[j]

\* An Acknowledge removed one update and kept two, and a Get(0, limit) that
\* followed returned what was kept.
C5_AcknowledgedThenGot ==
    /\ hist.last = "Get"
    /\ ~IsNil(hist.acked)
    /\ Deref(hist.got).offset = 0
    /\ Len(Deref(hist.got).result) = 2
    /\ Len(Deref(hist.acked).before) = 3
    /\ Deref(hist.acked).offset > 0

\* ------------------------------------------------------ the bot-plane handler
\* BotHandler.Handle runs in one goroutine per request. The model takes it in
\* two steps: HandleStart runs it up to and including Engine.Find (requests
\* answered before that point complete in this step), HandleFinish runs the
\* rest, from Scenario.Use on. Each half is made of calls that take the locks
\* of the stores they touch; the interleavings examined are the ones between
\* the lookup of a scenario and its use.

RequestRecord(token, method, params, scenarioID, response, isError, statusCode) ==
    [ID |-> 0, Token |-> token, Method |-> method, Params |-> params,
     ScenarioID |-> scenarioID, Response |-> response, IsError |-> isError,
     StatusCode |-> statusCode]

\* What a handler, or a part of one, came to: the response on the wire, the
\* record handed to the inspector (nil when the handler panicked before
\* recording) and the stores it may have changed.
Outcome(resp, rec, wh, upd, scn, fk) ==
    [resp |-> resp, rec |-> rec, webhooks |-> wh, updates |-> upd,
     scenarios |-> scn, faker |-> fk, builtins |-> builtinErrors]

\* writeError followed by recordRequest with the same APIResponse.
ErrorOutcome(r, code, desc, params, scenarioID) ==
    LET w == writeError(code, desc)
    IN  Outcome(w.resp,
                IF w.panic THEN Nil
                ELSE Ptr(RequestRecord(r.token, r.method, params, scenarioID,
                                       EncodeAPIResponse(FALSE, Nil, code, desc),
                                       TRUE, code)),
                webhooks, updates, scenarios, faker)

\* writeSuccess followed by recordRequest with the same APIResponse.
SuccessOutcome(r, result, params, scenarioID, wh, upd, scn, fk) ==
    Outcome(writeSuccess(Ptr(result)),
            Ptr(RequestRecord(r.token, r.method, params, scenarioID,
                              EncodeAPIResponse(TRUE, Ptr(result), 0, ""),
                              FALSE, 200)),
            wh, upd, scn, fk)

\* A panic reaches the Recoverer: nothing is recorded; the stores keep what
\* the handler had done to them.
PanicOutcome(upd, scn) ==
    Outcome(RecovererResponse, Nil, webhooks, upd, scn, faker)

\* Faulty token checks, which consult the registry whether or not it is
\* enabled.
TokenRejectionRegistryAlways(token) ==
    IF ~ValidateFormat(token)
    THEN Ptr([code |-> 401, desc |-> "Unauthorized: invalid token format"])
    ELSE IF token \notin DOMAIN tokens
    THEN Ptr([code |-> 401, desc |-> "Unauthorized: token not registered"])
    ELSE IF tokens[token] = "banned"
    THEN Ptr([code |-> 403, desc |-> "Forbidden: bot was banned"])
    ELSE IF tokens[token] = "deactivated"
    THEN Ptr([code |-> 401, desc |-> "Unauthorized: bot was deactivated"])
    ELSE Nil

\* The token checks at the head of Handle: nil when the token passes.
TokenRejection(token) ==
    IF ~ValidateFormat(token)
    THEN Ptr([code |-> 401, desc |-> "Unauthorized: invalid token format"])
    ELSE IF ~registryEnabled THEN Nil
    ELSE IF token \notin DOMAIN tokens
    THEN Ptr([code |-> 401, desc |-> "Unauthorized: token not registered"])
    ELSE IF tokens[token] = "banned"
    THEN Ptr([code |-> 403, desc |-> "Forbidden: bot was banned"])
    ELSE IF tokens[token] = "deactivated"
    THEN Ptr([code |-> 401, desc |-> "Unauthorized: bot was deactivated"])
    ELSE Nil

\* params[key].(string) and params[key].(bool) with the zero value on failure.
StringParam(params, key) ==
    IF key \in DOMAIN params /\ TypeOf(params[key]) = "string"
    THEN ValOf(params[key]) ELSE ""

BoolParam(params, key) ==
    key \in DOMAIN params /\ TypeOf(params[key]) = "bool" /\ ValOf(params[key])

handleSetWebhook(r, params) ==
    LET url == StringParam(params, "url")
        cfg == [URL |-> url, SecretToken |-> StringParam(params, "secret_token")]
        wh == IF url = "" THEN WebhookDelete(webhooks, r.token)
              ELSE WebhookSet(webhooks, r.token, cfg)
        upd == IF BoolParam(params, "drop_pending_updates")
               THEN QueueClear(updates) ELSE updates
    IN  SuccessOutcome(r, Bool(TRUE), Ptr(params), Nil, wh, upd, scenarios, faker)

\* The scenario list after a Use on the scenario Find returns for the request.
UsedByLookup(r, params) ==
    LET found == Find(scenarios, r.method, params)
    IN  [i \in DOMAIN scenarios |->
            IF i = found THEN Use(scenarios[i]) ELSE scenarios[i]]

\* A handleDeleteWebhook reached only after the scenario lookup.
handleDeleteWebhookAfterLookup(r, params) ==
    LET upd == IF BoolParam(params, "drop_pending_updates")
               THEN QueueClear(updates) ELSE updates
    IN  SuccessOutcome(r, Bool(TRUE), Ptr(params), Nil,
                       WebhookDelete(webhooks, r.token), upd,
                       UsedByLookup(r, params), faker)

handleDeleteWebhook(r, params) ==
    LET upd == IF BoolParam(params, "drop_pending_updates")
               THEN QueueClear(updates) ELSE updates
    IN  SuccessOutcome(r, Bool(TRUE), Ptr(params), Nil,
                       WebhookDelete(webhooks, r.token), upd, scenarios, faker)

handleGetWebhookInfo(r) ==
    SuccessOutcome(r, <<"map", GetInfo(webhooks, r.token, QueuePending(updates))>>,
                   Nil, Nil, webhooks, updates, scenarios, faker)

\* A header scenario answered only after the scenario lookup.
HeaderOutcomeAfterLookup(r, params, e) ==
    LET w == writeErrorResponse(e)
        o == Outcome(w.resp,
                     IF w.panic THEN Nil
                     ELSE Ptr(RequestRecord(r.token, r.method, Ptr(params),
                                            <<"header", r.scenarioHdr>>,
                                            ErrorResponseMap(e), TRUE, e.ErrorCode)),
                     webhooks, updates, UsedByLookup(r, params), faker)
    IN  [o EXCEPT !.builtins = HeaderScenarioTable(r)]

\* handleHeaderScenarioWithRecording for a name the table knows.
HeaderOutcome(r, params, e) ==
    LET w == writeErrorResponse(e)
        o == Outcome(w.resp,
                     IF w.panic THEN Nil
                     ELSE Ptr(RequestRecord(r.token, r.method, Ptr(params),
                                            <<"header", r.scenarioHdr>>,
                                            ErrorResponseMap(e), TRUE, e.ErrorCode)),
                     webhooks, updates, scenarios, faker)
    IN  [o EXCEPT !.builtins = HeaderScenarioTable(r)]

\* Handle up to the scenario lookup: either the request is answered here
\* (done), or the goroutine goes on with its params and the scenario found.
HandleFront(r) ==
    LET rej == TokenRejection(r.token)
        p == parseParams(r)
        hdr == IF r.scenarioHdr = "" THEN Nil ELSE HeaderScenarioError(r)
        found == Find(scenarios, r.method, p.params)
        answered(o) == [done |-> TRUE, out |-> o]
    IN  IF ~IsNil(rej)
        THEN answered(ErrorOutcome(r, Deref(rej).code, Deref(rej).desc, Nil, Nil))
        ELSE IF r.method = "setWebhook"
        THEN answered(handleSetWebhook(r, parseParamsOrEmpty(r)))
        ELSE IF r.method = "deleteWebhook"
        THEN answered(handleDeleteWebhook(r, parseParamsOrEmpty(r)))
        ELSE IF r.method = "getWebhookInfo"
        THEN answered(handleGetWebhookInfo(r))
        ELSE IF r.method \notin Methods
        THEN answered(ErrorOutcome(r, 404, "Not Found: method not found", Nil, Nil))
        ELSE IF p.err
        THEN answered(ErrorOutcome(r, 400, "Bad Request: invalid JSON body", Nil, Nil))
        ELSE IF ~IsNil(hdr)
        THEN answered(HeaderOutcome(r, p.params, Deref(hdr)))
        ELSE [done |-> FALSE, params |-> p.params,
              found |-> IF found = 0 THEN Nil ELSE Ptr(scenarios[found])]

\* An integer parameter as handleGetUpdates reads it: a float64 is converted
\* (the model's floats are whole numbers), a string goes through
\* parseInt64 / parseInt, anything else leaves the default.
IntegerParam(params, key, default) ==
    IF key \notin DOMAIN params THEN default
    ELSE IF TypeOf(params[key]) = "float64" THEN ValOf(params[key])
    ELSE IF TypeOf(params[key]) = "string"
         THEN LET n == parseInt64(ValOf(params[key]))
              IN  IF n.err THEN default ELSE n.n
    ELSE default

\* A faulty handleGetUpdates, which leaves out the Acknowledge.
handleGetUpdatesNoAcknowledge(upd, params) ==
    LET offset == IntegerParam(params, "offset", 0)
        get == QueueGet(upd, offset, IntegerParam(params, "limit", DefaultLimit))
    IN  [panic |-> get.panic, updates |-> upd, result |-> get.result]

\* handleGetUpdates: Acknowledge(offset) when offset > 0, then Get.
handleGetUpdates(upd, params) ==
    LET offset == IntegerParam(params, "offset", 0)
        limit == IntegerParam(params, "limit", DefaultLimit)
        ack == IF offset > 0 THEN QueueAcknowledge(upd, offset)
               ELSE [panic |-> FALSE, updates |-> upd]
        get == QueueGet(ack.updates, offset, limit)
    IN  IF ack.panic THEN [panic |-> TRUE, updates |-> ack.updates, result |-> <<>>]
        ELSE [panic |-> get.panic, updates |-> ack.updates, result |-> get.result]

MissingFieldDescription(field) ==
    IF field = "chat_id" THEN "Bad Request: missing required field: chat_id"
    ELSE "Bad Request: missing required field: text"

\* The scenario object a goroutine holds is the one in the engine's list with
\* the same identity; Use counts on that object.
UseFound(scn, found) ==
    IF IsNil(found) THEN scn
    ELSE [i \in DOMAIN scn |->
            IF scn[i].oid = Deref(found).oid THEN Use(scn[i]) ELSE scn[i]]

\* The queued scenario's error: written with writeErrorResponse, recorded as
\* the map {ok, error_code, description}.
ScenarioErrorOutcome(r, params, s, scn) ==
    LET e == Deref(s.Response)
        w == writeErrorResponse(e)
    IN  Outcome(w.resp,
                IF w.panic THEN Nil
                ELSE Ptr(RequestRecord(r.token, r.method, Ptr(params), s.ID,
                                       ErrorResponseMap([e EXCEPT !.RetryAfter = 0]),
                                       TRUE, e.ErrorCode)),
                webhooks, updates, scn, faker)

\* A conflict answered only after handleGetUpdates has acknowledged.
ConflictOutcomeAfterAcknowledge(r, params, sid, scn) ==
    [ErrorOutcome(r, 409,
        "Conflict: can't use getUpdates method while webhook is active",
        Ptr(params), sid) EXCEPT !.scenarios = scn,
                                 !.updates = handleGetUpdates(updates, params).updates]

\* getUpdates with a webhook active: the 409, written and recorded before
\* handleGetUpdates is reached.
ConflictOutcome(r, params, sid, scn) ==
    [ErrorOutcome(r, 409,
        "Conflict: can't use getUpdates method while webhook is active",
        Ptr(params), sid) EXCEPT !.scenarios = scn]

\* Handle from Scenario.Use to the end, for the goroutine state th.
HandleBack(th, rnd) ==
    LET r == th.req
        params == th.params
        scn == UseFound(scenarios, th.found)
        sid == IF IsNil(th.found) THEN Nil ELSE Deref(th.found).ID
        overrides == IF ~IsNil(th.found) /\ HasResponseData(Deref(th.found))
                     THEN Ptr(Deref(th.found).ResponseData) ELSE Nil
        missing == Validate(r.method, params)
        got == handleGetUpdates(updates, params)
        gen == GenerateWithOverrides(faker, MethodReturns(r.method), params,
                                     overrides, rnd)
    IN  IF ~IsNil(th.found) /\ IsError(Deref(th.found))
        THEN ScenarioErrorOutcome(r, params, Deref(th.found), scn)
        ELSE IF r.method = "getUpdates" /\ IsActive(webhooks, r.token)
        THEN ConflictOutcome(r, params, sid, scn)
        ELSE IF r.method = "getUpdates" /\ got.panic
        THEN PanicOutcome(got.updates, scn)
        ELSE IF r.method = "getUpdates"
        THEN SuccessOutcome(r, <<"list", got.result>>, Ptr(params), sid,
                            webhooks, got.updates, scn, faker)
        ELSE IF ~IsNil(missing)
        THEN [ErrorOutcome(r, 400, MissingFieldDescription(Deref(missing)),
                           Ptr(params), sid) EXCEPT !.scenarios = scn]
        ELSE SuccessOutcome(r, gen.result, Ptr(params), sid,
                            webhooks, updates, scn, gen.faker)

\* A handler's outcome takes effect: the stores, the inspector, the history.
\* alone tells whether the request ran with no other request in flight, at
\* how many exchanges had completed when the request arrived.
Complete(r, o, found, alone, at) ==
    /\ webhooks' = o.webhooks
    /\ updates' = o.updates
    /\ scenarios' = o.scenarios
    /\ faker' = o.faker
    /\ builtinErrors' = o.builtins
    /\ LET rr == IF IsNil(o.rec)
                 THEN [requests |-> requests, idCounter |-> recorderIdCounter]
                 ELSE RecorderRecord(requests, recorderIdCounter, Deref(o.rec))
       IN  /\ requests' = rr.requests
           /\ recorderIdCounter' = rr.idCounter
    /\ log' = Append(log, [plane |-> "bot", req |-> r, resp |-> o.resp,
                           scen |-> IF IsNil(found) THEN 0 ELSE Deref(found).oid,
                           alone |-> alone, at |-> at, rec |-> o.rec,
                           webhook |-> IF r.token \in DOMAIN webhooks
                                       THEN webhooks[r.token].URL ELSE ""])

MaxRequests == 2    \* bot-plane requests explored on the whole bot plane
MaxControls == 2    \* control-plane calls explored on the whole bot plane

AllIdle == \A u \in Threads : thr[u].pc = "idle"

\* A request arrives and its goroutine runs up to the scenario lookup. The
\* goroutines are interchangeable: a new request takes the first free one.
HandleStart(t, r) ==
    /\ calls.reqs < budget.reqs
    /\ thr[t].pc = "idle"
    /\ \A u \in Threads : u < t => thr[u].pc # "idle"
    /\ calls' = [calls EXCEPT !.reqs = @ + 1]
    /\ LET f == HandleFront(r)
       IN  IF f.done
           THEN /\ Complete(r, f.out, Nil, AllIdle, Len(log))
                /\ thr' = thr
           ELSE /\ thr' = [u \in Threads |->
                            IF u = t
                            THEN [pc |-> "found", req |-> r, params |-> f.params,
                                  found |-> f.found, alone |-> AllIdle,
                                  at |-> Len(log)]
                            ELSE IF thr[u].pc = "idle" THEN thr[u]
                            ELSE [thr[u] EXCEPT !.alone = FALSE]]
                /\ UNCHANGED <<webhooks, updates, scenarios, faker, requests,
                               recorderIdCounter, builtinErrors, log>>
    /\ UNCHANGED <<registryEnabled, tokens, engineIdCounter, queueIdCounter,
                   fakers, hist, budget>>

RandomChoices == {0, 1}

\* The goroutine runs from Scenario.Use to the end of Handle.
HandleFinish(t) ==
    /\ thr[t].pc = "found"
    /\ \E rnd \in RandomChoices :
          Complete(thr[t].req, HandleBack(thr[t], rnd), thr[t].found,
                   thr[t].alone, thr[t].at)
    /\ thr' = [thr EXCEPT ![t] = Idle]
    /\ UNCHANGED <<registryEnabled, tokens, engineIdCounter, queueIdCounter,
                   fakers, hist, calls, budget>>

\* --------------------------------------------------------- the control plane

\* POST /__control/scenarios: the decoded scenario is added to the engine.
\* oid is the identity of the scenario object, which the program has as the
\* object's address.
ControlAddScenario(s) ==
    /\ calls.ctls < budget.ctls
    /\ LET r == EngineAdd(scenarios, engineIdCounter,
                          [s EXCEPT !.oid = calls.scens + 1])
       IN  /\ scenarios' = r.scenarios
           /\ engineIdCounter' = r.idCounter
           /\ log' = Append(log,
                  [plane |-> "control",
                   req |-> [method |-> "addScenario", oid |-> calls.scens + 1,
                            started |-> calls.reqs],
                   resp |-> [status |-> 201, body |-> [id |-> r.id]]])
    /\ calls' = [calls EXCEPT !.ctls = @ + 1, !.scens = @ + 1]
    /\ UNCHANGED <<registryEnabled, tokens, updates, queueIdCounter, webhooks,
                   requests, recorderIdCounter, faker, fakers, builtinErrors, thr, hist,
                   budget>>

\* POST /__control/updates: the decoded JSON object goes to Queue.Add; an id
\* in the body is a float64, and Add's panic reaches the Recoverer.
ControlAddUpdate(id) ==
    /\ calls.ctls < budget.ctls
    /\ LET r == QueueAdd(updates, queueIdCounter, NewUpdate(id, calls.adds + 1))
       IN  /\ updates' = r.updates
           /\ queueIdCounter' = r.idCounter
           /\ log' = Append(log,
                  [plane |-> "control", req |-> [method |-> "addUpdate", id |-> id],
                   resp |-> IF r.panic THEN RecovererResponse
                            ELSE [status |-> 201,
                                  body |-> [update_id |-> I64(r.ret)]]])
    /\ calls' = [calls EXCEPT !.ctls = @ + 1, !.adds = @ + 1]
    /\ UNCHANGED <<registryEnabled, tokens, scenarios, engineIdCounter, webhooks,
                   requests, recorderIdCounter, faker, fakers, builtinErrors, thr, hist,
                   budget>>

\* GET /__control/updates: Queue.Get(0, 100), then Queue.Pending.
ControlListUpdates ==
    /\ calls.ctls < budget.ctls
    /\ LET r == QueueGet(updates, 0, DefaultLimit)
       IN  log' = Append(log,
                  [plane |-> "control", req |-> [method |-> "listUpdates"],
                   resp |-> IF r.panic THEN RecovererResponse
                            ELSE [status |-> 200,
                                  body |-> [updates |-> <<"list", r.result>>,
                                            pending |-> I64(QueuePending(updates))]]])
    /\ calls' = [calls EXCEPT !.ctls = @ + 1]
    /\ UNCHANGED <<registryEnabled, tokens, scenarios, engineIdCounter, updates,
                   queueIdCounter, webhooks, requests, recorderIdCounter, faker,
                   fakers, builtinErrors, thr, hist,
                   budget>>

\* ------------------------------------------------------------------ the inputs

Request(token, method, query, body, scenarioHdr, retryHdr) ==
    [token |-> token, method |-> method, query |-> query, body |-> body,
     scenarioHdr |-> scenarioHdr, retryHdr |-> retryHdr]

NoBody == [kind |-> "none", fields |-> EmptyMap]
JsonBody(fields) == [kind |-> "json", fields |-> fields]
BadJsonBody == [kind |-> "badjson", fields |-> EmptyMap]

Token1 == "123:abc"
Token2 == "456:def"

SendMessageOk ==
    Request(Token1, "sendMessage", EmptyMap,
            JsonBody([chat_id |-> F64(1), text |-> Str("hi")]), "", "")
SendMessageNoText ==
    Request(Token1, "sendMessage", EmptyMap, JsonBody([chat_id |-> F64(1)]), "", "")
SendMessageBadJson ==
    Request(Token1, "sendMessage", EmptyMap, BadJsonBody, "", "")
SendMessageRateLimit ==
    Request(Token1, "sendMessage", EmptyMap,
            JsonBody([chat_id |-> F64(1), text |-> Str("hi")]), "rate_limit", "")
SendMessageBanned ==
    Request(Token2, "sendMessage", EmptyMap,
            JsonBody([chat_id |-> F64(1), text |-> Str("hi")]), "", "")
SendMessageMalformedToken ==
    Request("invalid", "sendMessage", EmptyMap, NoBody, "", "")
UnknownMethod == Request(Token1, "noSuchMethod", EmptyMap, NoBody, "", "")
GetUpdatesAll == Request(Token1, "getUpdates", EmptyMap, NoBody, "", "")
GetUpdatesFrom(s) == Request(Token1, "getUpdates", [offset |-> s], NoBody, "", "")
GetUpdatesBlocked == Request(Token1, "getUpdates", EmptyMap, NoBody, "bot_blocked", "")
SetWebhook ==
    Request(Token1, "setWebhook", EmptyMap,
            JsonBody([url |-> Str("https://bot.example/hook")]), "", "")
DeleteWebhook == Request(Token1, "deleteWebhook", EmptyMap, NoBody, "", "")
GetWebhookInfo == Request(Token1, "getWebhookInfo", EmptyMap, NoBody, "", "")

\* A scenario as POST /__control/scenarios decodes it.
Scenario(method, times, response, responseData) ==
    [ID |-> Nil, Method |-> method, Match |-> EmptyMap, Times |-> times,
     Response |-> response, ResponseData |-> responseData, used |-> 0, oid |-> 0]

ErrorResponse(code, description) ==
    Ptr([ErrorCode |-> code, Description |-> description, RetryAfter |-> 0])

\* Error codes a scenario is configured with: two HTTP status codes and a
\* number that is not one.
ErrorCodes == {400, 429, 42}

ErrorScenario(method, times, code) ==
    Scenario(method, times, ErrorResponse(code, "scenario error"), EmptyMap)

DataScenario(method, times) ==
    Scenario(method, times, Nil, [text |-> Str("overridden")])

ConfiguredTokens == [k \in {Token1, Token2} |-> IF k = Token1 THEN "active" ELSE "banned"]

\* ------------------------------------------------------- the whole bot plane

Requests ==
    {SendMessageOk, SendMessageNoText, SendMessageBadJson, SendMessageRateLimit,
     SendMessageBanned, SendMessageMalformedToken, UnknownMethod, GetUpdatesAll,
     GetUpdatesFrom("1"), GetUpdatesBlocked, SetWebhook, DeleteWebhook,
     GetWebhookInfo}

Scenarios ==
    {ErrorScenario("*", 1, c) : c \in ErrorCodes} \cup {DataScenario("sendMessage", 1)}

UpdateIds == {Nil, Ptr(F64(MaxId))}

Init == ServerNew(ConfiguredTokens) /\ Budget(MaxRequests, MaxControls)

Next ==
    \/ \E t \in Threads, r \in Requests : HandleStart(t, r)
    \/ \E t \in Threads : HandleFinish(t)
    \/ \E s \in Scenarios : ControlAddScenario(s)
    \/ \E id \in UpdateIds : ControlAddUpdate(id)
    \/ ControlListUpdates

Spec == Init /\ [][Next]_vars

\* ------------------------------------------------ properties of the bot plane

BotEntries == {i \in DOMAIN log : log[i].plane = "bot"}

HasResult(i) == "result" \in DOMAIN log[i].resp.body

HasError(i) ==
    /\ "error_code" \in DOMAIN log[i].resp.body
    /\ "description" \in DOMAIN log[i].resp.body

\* The scenario object with identity oid, as the engine holds it now.
ScenarioByOid(oid) ==
    scenarios[CHOOSE k \in DOMAIN scenarios : scenarios[k].oid = oid]

\* The request was answered by the error of a queued scenario.
AnsweredByScenarioError(i) ==
    log[i].scen # 0 /\ ~IsNil(ScenarioByOid(log[i].scen).Response)

\* The request was answered before the queued scenarios were looked at: by a
\* token rejection, a parse failure or a header scenario.
AnsweredBeforeScenarios(i) ==
    \/ ~IsNil(TokenRejection(log[i].req.token))
    \/ log[i].req.body.kind = "badjson"
    \/ log[i].req.scenarioHdr \in BuiltinNames

GetUpdatesUnderWebhook(i) ==
    /\ log[i].req.method = "getUpdates"
    /\ log[i].webhook # ""

C3_OneRecordPerRequest == Len(requests) = Cardinality(BotEntries)

\* Two requests were handled and recorded.
C3_TwoRecorded == Cardinality(BotEntries) = 2 /\ Len(requests) = 2

\* C9: every bot-plane response has exactly one of result and (error_code
\* with description), and ok is true exactly when result is present.
C9_ResultXorError ==
    \A i \in BotEntries :
        /\ HasResult(i) # HasError(i)
        /\ "ok" \in DOMAIN log[i].resp.body
        /\ ValOf(log[i].resp.body["ok"]) = HasResult(i)

\* A success and an error have both been answered.
C9_BothKindsAnswered ==
    /\ \E i \in BotEntries : HasResult(i)
    /\ \E i \in BotEntries : HasError(i)

\* C10: every error response of the bot plane has an HTTP status equal to the
\* error_code of its envelope.
C10_StatusIsErrorCode ==
    \A i \in BotEntries :
        ~HasResult(i) =>
            /\ "error_code" \in DOMAIN log[i].resp.body
            /\ log[i].resp.status = ValOf(log[i].resp.body["error_code"])

\* A queued scenario answered with its error code as the status.
C10_ScenarioErrorAnswered ==
    \E i \in BotEntries :
        /\ AnsweredByScenarioError(i)
        /\ log[i].resp.status = ScenarioByOid(log[i].scen).Response[1].ErrorCode

\* ---------------------------------------------- queued scenarios and requests
\* sendMessage requests, valid and not, against scenarios added for the method.

MaxScenarioRequests == 3    \* bot-plane requests explored against scenarios
MaxScenarioAdds == 2        \* scenarios added in a behaviour
MaxTimes == 2               \* largest budget (times) of a scenario

ScenarioRequests == {SendMessageOk, SendMessageNoText}

ScenarioErrorCodes == {429, 42}

BoundedScenarios ==
    {ErrorScenario("sendMessage", n, c) : n \in 1..MaxTimes, c \in ScenarioErrorCodes}
    \cup {DataScenario("sendMessage", 1)}

InitScenario ==
    ServerNew(EmptyMap) /\ Budget(MaxScenarioRequests, MaxScenarioAdds)

NextScenario ==
    \/ \E t \in Threads, r \in ScenarioRequests : HandleStart(t, r)
    \/ \E t \in Threads : HandleFinish(t)
    \/ \E s \in BoundedScenarios : ControlAddScenario(s)

SpecScenario == InitScenario /\ [][NextScenario]_vars

\* The response of entry i is the error e of a scenario.
IsScenarioError(i, e) ==
    /\ log[i].resp.status = e.ErrorCode
    /\ HasError(i)
    /\ log[i].resp.body["ok"] = Bool(FALSE)
    /\ log[i].resp.body["error_code"] = I64(e.ErrorCode)
    /\ log[i].resp.body["description"] = Str(e.Description)

\* C1: whatever the interleaving of the requests that match it, a scenario
\* with an error response and times = N > 0 has its error received by at most
\* N requests.
C1_AtMostTimesReceiveError ==
    \A k \in DOMAIN scenarios :
        (scenarios[k].Times > 0 /\ ~IsNil(scenarios[k].Response)) =>
            Cardinality({i \in BotEntries :
                            /\ log[i].scen = scenarios[k].oid
                            /\ IsScenarioError(i, Deref(scenarios[k].Response))})
                <= scenarios[k].Times

\* Two requests that overlapped were both matched to the same scenario.
C1_TwoOverlappingMatched ==
    \E i, j \in BotEntries :
        /\ i < j
        /\ log[i].scen # 0
        /\ log[i].scen = log[j].scen
        /\ ~log[j].alone

\* The behaviours the sequential claims are about: one scenario was added,
\* before any request arrived, and no two requests overlapped.
OneScenarioFirst ==
    /\ calls.scens = 1
    /\ log[1].plane = "control"
    /\ log[1].req.started = 0
    /\ \A i \in BotEntries : log[i].alone

\* How many requests up to entry i matched the scenario s.
MatchingUpTo(i, s) ==
    Cardinality({j \in BotEntries :
                    j <= i /\ Matches(s, log[j].req.method, parseParams(log[j].req).params)})

\* C7: with a single error scenario of times = N > 0 and requests handled one
\* at a time, the first N matching requests receive the scenario's error
\* (status = error_code, ok = false, its description), later ones do not, and
\* a valid request among the later ones is answered 200.
C7_FirstTimesRequestsGetError ==
    (OneScenarioFirst /\ scenarios[1].Times > 0 /\ ~IsNil(scenarios[1].Response)) =>
        \A i \in BotEntries :
            Matches(scenarios[1], log[i].req.method, parseParams(log[i].req).params) =>
                IF MatchingUpTo(i, scenarios[1]) <= scenarios[1].Times
                THEN IsScenarioError(i, Deref(scenarios[1].Response))
                ELSE /\ ~IsScenarioError(i, Deref(scenarios[1].Response))
                     /\ IsNil(Validate(log[i].req.method, parseParams(log[i].req).params))
                            => log[i].resp.status = 200

\* A scenario with times = 1 answered the first request and the second
\* request, a valid one, was answered 200.
C7_ExhaustedThenSuccess ==
    /\ OneScenarioFirst
    /\ scenarios[1].Times = 1
    /\ ~IsNil(scenarios[1].Response)
    /\ Len(log) = 3
    /\ IsScenarioError(2, Deref(scenarios[1].Response))
    /\ log[3].resp.status = 200

\* C8: after a scenario with response_data {text: v} and no error response is
\* added for sendMessage, the next 200 response to a sendMessage carries
\* text = v, whatever sendMessage requests were answered with an error before.
C8_NextSuccessCarriesOverride ==
    (OneScenarioFirst /\ IsNil(scenarios[1].Response)) =>
        \A i \in BotEntries :
            (/\ log[i].req.method = scenarios[1].Method
             /\ log[i].resp.status = 200
             /\ \A j \in BotEntries :
                   (j < i /\ log[j].req.method = scenarios[1].Method)
                       => log[j].resp.status # 200) =>
                ValOf(log[i].resp.body["result"])["text"] = scenarios[1].ResponseData["text"]

\* The first sendMessage after the scenario was added succeeded with the
\* override in its result.
C8_OverrideApplied ==
    /\ OneScenarioFirst
    /\ IsNil(scenarios[1].Response)
    /\ Len(log) >= 2
    /\ log[2].resp.status = 200
    /\ ValOf(log[2].resp.body["result"])["text"] = Str("overridden")

\* ------------------------------------------------- getUpdates and the queue
\* Updates injected through the control plane, polled with getUpdates (offset
\* and limit in the query or in a JSON body) and listed through the control
\* plane, with the webhook of the token set and deleted in between.

MaxUpdateRequests == 2    \* bot-plane requests explored against the queue
MaxUpdateControls == 2    \* control-plane calls explored against the queue

GetUpdatesLimit(s) == Request(Token1, "getUpdates", [limit |-> s], NoBody, "", "")
GetUpdatesJson(n) ==
    Request(Token1, "getUpdates", EmptyMap, JsonBody([offset |-> F64(n)]), "", "")

UpdateRequests ==
    {GetUpdatesAll, GetUpdatesFrom("2"), GetUpdatesJson(3), GetUpdatesLimit("1"),
     SetWebhook}

InitUpdates ==
    ServerNew(EmptyMap) /\ Budget(MaxUpdateRequests, MaxUpdateControls)

NextUpdates ==
    \/ \E t \in Threads, r \in UpdateRequests : HandleStart(t, r)
    \/ \E t \in Threads : HandleFinish(t)
    \/ \E id \in UpdateIds : ControlAddUpdate(id)
    \/ ControlListUpdates

SpecUpdates == InitUpdates /\ [][NextUpdates]_vars

\* Entry i is a getUpdates answered 200.
GetUpdatesOk(i) ==
    /\ log[i].plane = "bot"
    /\ log[i].req.method = "getUpdates"
    /\ log[i].resp.status = 200

\* The offset the request of entry i asked for.
OffsetOf(i) == IntegerParam(parseParams(log[i].req).params, "offset", 0)

\* The updates entry i returned: a getUpdates result or a control-plane list.
Returned(i) ==
    IF GetUpdatesOk(i) THEN ValOf(log[i].resp.body["result"])
    ELSE IF /\ log[i].plane = "control"
            /\ log[i].req.method = "listUpdates"
            /\ log[i].resp.status = 200
         THEN ValOf(log[i].resp.body["updates"])
    ELSE <<>>

\* Entry m is an injection of an update through the control plane.
IsAddUpdate(m) == log[m].plane = "control" /\ log[m].req.method = "addUpdate"

\* The update u, told by its payload, was injected before entry i.
InjectedBefore(u, i) ==
    u.payload <= Cardinality({m \in 1..(i - 1) : IsAddUpdate(m)})

\* Up to entry j no update with an id above last was injected.
NothingNewer(last, j) ==
    \A m \in 1..(j - 1) :
        (IsAddUpdate(m) /\ log[m].resp.status = 201) =>
            ValOf(log[m].resp.body["update_id"]) <= last

MaxWebhookRequests == 2    \* bot-plane requests explored against the webhook
MaxWebhookControls == 2    \* control-plane calls explored against the webhook

GetUpdatesBadJson == Request(Token1, "getUpdates", EmptyMap, BadJsonBody, "", "")

WebhookRequests ==
    {SetWebhook, DeleteWebhook, GetUpdatesAll, GetUpdatesFrom("1"), GetUpdatesBlocked,
     GetUpdatesBadJson}

WebhookScenarios == {ErrorScenario("getUpdates", 1, 429)}

InitWebhook ==
    ServerNew(ConfiguredTokens) /\ Budget(MaxWebhookRequests, MaxWebhookControls)

NextWebhook ==
    \/ \E t \in Threads, r \in WebhookRequests : HandleStart(t, r)
    \/ \E t \in Threads : HandleFinish(t)
    \/ \E s \in WebhookScenarios : ControlAddScenario(s)
    \/ \E id \in UpdateIds : ControlAddUpdate(id)

SpecWebhook == InitWebhook /\ [][NextWebhook]_vars

\* --------------------------------------------- what the inspector is told
\* The record a request left in the inspector, next to the response it got.

\* C11: every bot-plane request is recorded with the outcome it had: an error
\* with is_error = true and the HTTP status that was emitted, a success with
\* is_error = false and status 200.
C11_RecordedAsAnswered ==
    \A i \in BotEntries :
        /\ ~IsNil(log[i].rec)
        /\ Deref(log[i].rec).IsError = (log[i].resp.status # 200)
        /\ Deref(log[i].rec).StatusCode = log[i].resp.status

\* An error and a success were both answered and recorded as such.
C11_ErrorAndSuccessRecorded ==
    /\ \E i \in BotEntries :
          /\ log[i].resp.status = 403
          /\ ~IsNil(log[i].rec)
          /\ Deref(log[i].rec).IsError
          /\ Deref(log[i].rec).StatusCode = 403
    /\ \E i \in BotEntries :
          /\ log[i].resp.status = 200
          /\ ~IsNil(log[i].rec)
          /\ ~Deref(log[i].rec).IsError
          /\ Deref(log[i].rec).StatusCode = 200

\* ------------------------------------------------------- fakers on their own
\* Fakers made with faker.New, reset and asked to generate, as a test of the
\* package does. A faker made or reset with seed 0 seeds itself from the
\* clock. math/rand with a given seed is a fixed stream of draws: what the
\* n-th draw yields is a function of the seed and of n, and the model's
\* stream stands for the library's.

MaxFakerOps == 2    \* Reset and Generate calls explored on each faker

FakerNames == {"a", "b"}
Seeds == {0, 1, 2}
Clock == {1, 2}

RngIntn(seed, n, k) == (seed + n) % k

\* faker.New and Faker.Reset leave the same state: the stream at its start,
\* the counters at zero. calls and results are the history since then.
SeededFaker(seed, now, ops) ==
    [f |-> FakerNew, cfgSeed |-> seed,
     seed |-> IF seed = 0 THEN now ELSE seed, draws |-> 0,
     calls |-> <<>>, results |-> <<>>, ops |-> ops]

\* Faker.Generate at the time now: the generator runs with the stream's next
\* draw, and a Message carries the clock's reading as its date.
Generate(sf, typeName, params, now) ==
    LET g == GenerateWithOverrides(sf.f, typeName, params, Nil,
                                   RngIntn(sf.seed, sf.draws, 2))
        r == ValOf(g.result)
        dated == [k \in DOMAIN r \cup {"date"} |->
                    IF k = "date" THEN I64(now) ELSE r[k]]
    IN  [faker |-> g.faker, draws |-> sf.draws + 1,
         result |-> IF typeName = "Message" THEN <<"map", dated>> ELSE g.result]

FNew(x, seed, now) ==
    /\ x \notin DOMAIN fakers
    /\ fakers' = [y \in DOMAIN fakers \cup {x} |->
                    IF y = x THEN SeededFaker(seed, now, 0) ELSE fakers[y]]
    /\ UNCHANGED <<registryEnabled, tokens, scenarios, engineIdCounter, updates,
                   queueIdCounter, webhooks, requests, recorderIdCounter, faker,
                   builtinErrors, thr, log, hist, calls, budget>>

FReset(x, seed, now) ==
    /\ x \in DOMAIN fakers
    /\ fakers[x].ops < MaxFakerOps
    /\ fakers' = [fakers EXCEPT ![x] = SeededFaker(seed, now, fakers[x].ops + 1)]
    /\ UNCHANGED <<registryEnabled, tokens, scenarios, engineIdCounter, updates,
                   queueIdCounter, webhooks, requests, recorderIdCounter, faker,
                   builtinErrors, thr, log, hist, calls, budget>>

FGenerate(x, typeName, params, now) ==
    /\ x \in DOMAIN fakers
    /\ fakers[x].ops < MaxFakerOps
    /\ LET g == Generate(fakers[x], typeName, params, now)
       IN  fakers' = [fakers EXCEPT
                        ![x].f = g.faker,
                        ![x].draws = g.draws,
                        ![x].calls = Append(@, <<typeName, params>>),
                        ![x].results = Append(@, g.result),
                        ![x].ops = @ + 1]
    /\ UNCHANGED <<registryEnabled, tokens, scenarios, engineIdCounter, updates,
                   queueIdCounter, webhooks, requests, recorderIdCounter, faker,
                   builtinErrors, thr, log, hist, calls, budget>>

\* Chat ids on both sides of the two boundaries of generateChat.
ChatIds == {1, 0, 0 - 5, ChannelIdLimit, ChannelIdLimit - 1}

ChatParams(c) == [chat_id |-> I64(c)]

FakerCalls ==
    {<<"User", EmptyMap>>, <<"Message", ChatParams(1)>>}
    \cup {<<"Chat", ChatParams(c)>> : c \in ChatIds}

InitFaker == ServerNew(EmptyMap) /\ Budget(0, 0)

NextFaker ==
    \/ \E x \in FakerNames, seed \in Seeds, now \in Clock : FNew(x, seed, now)
    \/ \E x \in FakerNames, seed \in Seeds, now \in Clock : FReset(x, seed, now)
    \/ \E x \in FakerNames, c \in FakerCalls, now \in Clock :
          FGenerate(x, c[1], c[2], now)

SpecFaker == InitFaker /\ [][NextFaker]_vars

\* C12: two fakers made or reset with the same non-zero seed and given the
\* same sequence of Generate calls produce the same sequence of results,
\* whenever the calls are made.
C12_SameSeedSameResults ==
    \A x, y \in DOMAIN fakers :
        (fakers[x].cfgSeed # 0 /\ fakers[x].cfgSeed = fakers[y].cfgSeed) =>
            \A i \in DOMAIN fakers[x].calls \cap DOMAIN fakers[y].calls :
                SubSeq(fakers[x].calls, 1, i) = SubSeq(fakers[y].calls, 1, i)
                    => fakers[x].results[i] = fakers[y].results[i]

\* Two fakers with the same non-zero seed were given the same two calls.
C12_SameCallsMade ==
    /\ DOMAIN fakers = FakerNames
    /\ fakers["a"].cfgSeed # 0
    /\ fakers["a"].cfgSeed = fakers["b"].cfgSeed
    /\ Len(fakers["a"].calls) = 2
    /\ fakers["a"].calls = fakers["b"].calls
    /\ fakers["a"].calls[2][1] = "Message"

\* ------------------------------------------------- sendMessage, three encodings
\* sendMessage with chat_id and text sent as a JSON body, in the query string
\* or as form fields.

MaxReflectRequests == 3    \* bot-plane requests explored for the reflection

\* A form body: r.PostForm holds every field as a string.
FormBody(fields) ==
    [kind |-> "form", fields |-> [k \in DOMAIN fields |-> Str(fields[k])]]

Encodings == {"json", "query", "form"}
SentChatIds == {"1", "5"}
SentText == "hi"

\* sendMessage(chat_id = c, text = SentText) in the encoding enc; c is the
\* decimal text of the id, which a JSON body carries as a number.
SendMessageVia(enc, c) ==
    CASE enc = "json" ->
            Request(Token1, "sendMessage", EmptyMap,
                    JsonBody([chat_id |-> F64(DecimalValue(c)), text |-> Str(SentText)]),
                    "", "")
      [] enc = "query" ->
            Request(Token1, "sendMessage", [chat_id |-> c, text |-> SentText],
                    NoBody, "", "")
      [] OTHER ->
            Request(Token1, "sendMessage", EmptyMap,
                    FormBody([chat_id |-> c, text |-> SentText]), "", "")

ReflectRequests == {SendMessageVia(enc, c) : enc \in Encodings, c \in SentChatIds}

InitReflect == ServerNew(EmptyMap) /\ Budget(MaxReflectRequests, 0)

NextReflect ==
    \/ \E t \in Threads, r \in ReflectRequests : HandleStart(t, r)
    \/ \E t \in Threads : HandleFinish(t)

SpecReflect == InitReflect /\ [][NextReflect]_vars

\* The chat id a sendMessage request of the model was sent with.
ChatIdSent(r) ==
    CHOOSE n \in {DecimalValue(c) : c \in SentChatIds} :
        \E enc \in Encodings, c \in SentChatIds :
            r = SendMessageVia(enc, c) /\ n = DecimalValue(c)

\* C13: an accepted sendMessage(chat_id = C, text = T) is answered with
\* result.chat.id = C and result.text = T, in each of the three encodings.
C13_ChatIdAndTextReflected ==
    \A i \in BotEntries :
        (log[i].req.method = "sendMessage" /\ log[i].resp.status = 200) =>
            LET result == ValOf(log[i].resp.body["result"])
            IN  /\ ValOf(result["chat"])["id"] = I64(ChatIdSent(log[i].req))
                /\ "text" \in DOMAIN result
                /\ result["text"] = Str(SentText)

\* A sendMessage sent as form fields with a chat id other than 1 was accepted.
C13_FormRequestAccepted ==
    \E i \in BotEntries :
        /\ log[i].req = SendMessageVia("form", "5")
        /\ log[i].resp.status = 200

\* ----------------------------------------------------- the webhook round trip
\* setWebhook, getWebhookInfo, deleteWebhook and getUpdates for two tokens of
\* a server without preloaded tokens, with updates injected through the
\* control plane.

MaxRoundTripRequests == 3    \* bot-plane requests explored for the round trip
MaxRoundTripControls == 1    \* control-plane calls explored for the round trip

HookUrls == {"https://bot.example/hook", "https://bot.example/other"}

SetWebhookFor(tok, url) ==
    Request(tok, "setWebhook", EmptyMap, JsonBody([url |-> Str(url)]), "", "")
DeleteWebhookFor(tok) == Request(tok, "deleteWebhook", EmptyMap, NoBody, "", "")
GetWebhookInfoFor(tok) == Request(tok, "getWebhookInfo", EmptyMap, NoBody, "", "")
GetUpdatesFor(tok) == Request(tok, "getUpdates", EmptyMap, NoBody, "", "")

RoundTripRequests ==
    {SetWebhookFor(tok, url) : tok \in {Token1, Token2}, url \in HookUrls}
    \cup {DeleteWebhookFor(tok) : tok \in {Token1, Token2}}
    \cup {GetWebhookInfoFor(tok) : tok \in {Token1, Token2}}
    \cup {GetUpdatesFor(tok) : tok \in {Token1, Token2}}

InitRoundTrip ==
    ServerNew(EmptyMap) /\ Budget(MaxRoundTripRequests, MaxRoundTripControls)

NextRoundTrip ==
    \/ \E t \in Threads, r \in RoundTripRequests : HandleStart(t, r)
    \/ \E t \in Threads : HandleFinish(t)
    \/ \E id \in UpdateIds : ControlAddUpdate(id)

SpecRoundTrip == InitRoundTrip /\ [][NextRoundTrip]_vars

\* Entry j is the first request after entry i, both handled with no other
\* request in flight, that touches or reads the webhook of i's token.
NextForToken(i, j) ==
    /\ i \in BotEntries /\ j \in BotEntries /\ i < j
    /\ log[i].alone /\ log[j].alone
    /\ log[j].req.token = log[i].req.token
    /\ \A k \in BotEntries :
          (i < k /\ k < j /\ log[k].req.token = log[i].req.token)
              => log[k].req.method \in {"getWebhookInfo", "getUpdates"}

UrlIn(i) == ValOf(log[i].resp.body["result"])["url"]

\* C14: after setWebhook(url = U), U non-empty, getWebhookInfo for the token
\* returns url = U; after a following deleteWebhook, getWebhookInfo returns
\* url = "" and getUpdates for the token is answered 200.
C14_WebhookRoundTrip ==
    \A i, j \in DOMAIN log :
        NextForToken(i, j) =>
            /\ (log[i].req.method = "setWebhook" /\ log[j].req.method = "getWebhookInfo")
                  => UrlIn(j) = ValOf(log[i].req.body.fields["url"])
            /\ (log[i].req.method = "deleteWebhook" /\ log[j].req.method = "getWebhookInfo")
                  => UrlIn(j) = ""
            /\ (log[i].req.method = "deleteWebhook" /\ log[j].req.method = "getUpdates")
                  => log[j].resp.status = 200

\* A webhook was set, deleted, and getUpdates for the token was then answered.
C14_SetDeletedPolled ==
    /\ Len(log) >= 3
    /\ NextForToken(1, 2) /\ NextForToken(2, 3)
    /\ log[1].req.method = "setWebhook"
    /\ log[2].req.method = "deleteWebhook"
    /\ log[3].req.method = "getUpdates"
    /\ log[3].resp.status = 200

\* ------------------------------------------------------ the type of a chat

\* The chat type the rule gives for a chat id: private above zero, channel at
\* or below the channel boundary, a group otherwise.
ChatTypesFor(c) ==
    IF c > 0 THEN {"private"}
    ELSE IF c <= ChannelIdLimit THEN {"channel"}
    ELSE {"group", "supergroup"}

\* C15: the type of a generated Chat follows from its chat_id: private when
\* chat_id > 0, channel when chat_id is at or below the channel boundary,
\* group or supergroup for every other value, zero included.
C15_ChatTypeFollowsId ==
    \A x \in DOMAIN fakers :
        \A i \in DOMAIN fakers[x].calls :
            fakers[x].calls[i][1] = "Chat" =>
                ValOf(ValOf(fakers[x].results[i])["type"])
                    \in ChatTypesFor(ValOf(fakers[x].calls[i][2]["chat_id"]))

\* Chats were generated for an id at the channel boundary and for an id in
\* the group range.
C15_BoundaryChatsGenerated ==
    \E x \in DOMAIN fakers :
        /\ Len(fakers[x].calls) = 2
        /\ fakers[x].calls[1] = <<"Chat", ChatParams(ChannelIdLimit)>>
        /\ fakers[x].calls[2] = <<"Chat", ChatParams(0 - 5)>>
        /\ ValOf(ValOf(fakers[x].results[2])["type"]) = "supergroup"

\* ------------------------------------------------------- the token registry
\* The control plane registers tokens, changes their status and deletes them
\* while requests arrive, in a server started without tokens (the registry is
\* not consulted) and in one started with tokens.

MaxTokenRequests == 2    \* bot-plane requests explored against the registry
MaxTokenControls == 1    \* control-plane token calls explored

\* The statuses a control-plane body carries: none, and the two that the
\* token checks reject.
Statuses == {"", "banned", "deactivated"}

\* POST /__control/tokens: an empty status becomes active.
ControlRegisterToken(token, status) ==
    /\ calls.ctls < budget.ctls
    /\ LET st == IF status = "" THEN "active" ELSE status
       IN  /\ tokens' = RegistryRegister(tokens, token, st)
           /\ log' = Append(log,
                  [plane |-> "control",
                   req |-> [method |-> "registerToken", token |-> token,
                            status |-> status],
                   resp |-> [status |-> 201, body |-> EmptyMap]])
    /\ calls' = [calls EXCEPT !.ctls = @ + 1]
    /\ UNCHANGED <<registryEnabled, scenarios, engineIdCounter, updates,
                   queueIdCounter, webhooks, requests, recorderIdCounter, faker,
                   fakers, builtinErrors, thr, hist,
                   budget>>

\* DELETE /__control/tokens/{token}
ControlDeleteToken(token) ==
    /\ calls.ctls < budget.ctls
    /\ tokens' = RegistryDelete(tokens, token)
    /\ log' = Append(log,
           [plane |-> "control",
            req |-> [method |-> "deleteToken", token |-> token, status |-> ""],
            resp |-> [status |-> 204, body |-> EmptyMap]])
    /\ calls' = [calls EXCEPT !.ctls = @ + 1]
    /\ UNCHANGED <<registryEnabled, scenarios, engineIdCounter, updates,
                   queueIdCounter, webhooks, requests, recorderIdCounter, faker,
                   fakers, builtinErrors, thr, hist,
                   budget>>

\* PATCH /__control/tokens/{token}: 404 when the token is not registered.
ControlUpdateToken(token, status) ==
    /\ calls.ctls < budget.ctls
    /\ tokens' = RegistryUpdateStatus(tokens, token, status)
    /\ log' = Append(log,
           [plane |-> "control",
            req |-> [method |-> "updateToken", token |-> token, status |-> status],
            resp |-> [status |-> IF token \in DOMAIN tokens THEN 200 ELSE 404,
                      body |-> EmptyMap]])
    /\ calls' = [calls EXCEPT !.ctls = @ + 1]
    /\ UNCHANGED <<registryEnabled, scenarios, engineIdCounter, updates,
                   queueIdCounter, webhooks, requests, recorderIdCounter, faker,
                   fakers, builtinErrors, thr, hist,
                   budget>>

GetMeFor(tok) == Request(tok, "getMe", EmptyMap, NoBody, "", "")

TokenRequests ==
    {GetMeFor(Token1), GetMeFor(Token2), GetMeFor("invalid"), GetWebhookInfoFor(Token2)}

NextTokens ==
    \/ \E t \in Threads, r \in TokenRequests : HandleStart(t, r)
    \/ \E t \in Threads : HandleFinish(t)
    \/ \E tok \in WellFormedTokens, st \in Statuses : ControlRegisterToken(tok, st)
    \/ \E tok \in WellFormedTokens : ControlDeleteToken(tok)
    \/ \E tok \in WellFormedTokens, st \in Statuses : ControlUpdateToken(tok, st)

InitTokensOff ==
    ServerNew(EmptyMap) /\ Budget(MaxTokenRequests, MaxTokenControls)

SpecTokensOff == InitTokensOff /\ [][NextTokens]_vars

\* A configuration with one token, which leaves the other one absent.
OneConfiguredToken == [k \in {Token1} |-> "active"]

InitTokensOn ==
    ServerNew(OneConfiguredToken) /\ Budget(MaxTokenRequests, MaxTokenControls)

SpecTokensOn == InitTokensOn /\ [][NextTokens]_vars

NotRegistered == "Unauthorized: token not registered"
WasBanned == "Forbidden: bot was banned"
WasDeactivated == "Unauthorized: bot was deactivated"

\* The request of entry i was answered by the registry's part of the token
\* checks.
RejectedByRegistry(i) ==
    /\ HasError(i)
    /\ log[i].resp.body["description"]
           \in {Str(NotRegistered), Str(WasBanned), Str(WasDeactivated)}

\* C16: in a server started with no tokens, whatever the control plane does
\* to the registry, no request with a well-formed token is answered 'token
\* not registered', 'bot was banned' or 'bot was deactivated'.
C16_RegistryOffNeverRejects ==
    ~registryEnabled =>
        \A i \in BotEntries :
            ValidateFormat(log[i].req.token) => ~RejectedByRegistry(i)

\* A token was registered as banned and a request with it was then answered
\* 200, in a server started with no tokens.
C16_BannedTokenAnswered ==
    /\ ~registryEnabled
    /\ \E i \in BotEntries :
          /\ log[i].resp.status = 200
          /\ log[i].req.token \in DOMAIN tokens
          /\ tokens[log[i].req.token] = "banned"
          /\ \E j \in 1..log[i].at :
                /\ log[j].plane = "control"
                /\ log[j].req.method = "registerToken"
                /\ log[j].req.token = log[i].req.token
                /\ log[j].req.status = "banned"

\* The registry entry of tok after the first n exchanges: the configured
\* entry, changed by each control-plane call for tok in turn. nil is absent.
RECURSIVE EntryAfter(_, _)
EntryAfter(tok, n) ==
    IF n = 0
    THEN IF tok \in DOMAIN OneConfiguredToken
         THEN Ptr(OneConfiguredToken[tok]) ELSE Nil
    ELSE LET e == log[n]
             prev == EntryAfter(tok, n - 1)
         IN  IF e.plane # "control" THEN prev
             ELSE IF e.req.method \notin {"registerToken", "deleteToken", "updateToken"}
             THEN prev
             ELSE IF e.req.token # tok THEN prev
             ELSE IF e.req.method = "deleteToken" THEN Nil
             ELSE IF e.req.method = "registerToken"
             THEN Ptr(IF e.req.status = "" THEN "active" ELSE e.req.status)
             ELSE IF IsNil(prev) THEN Nil ELSE Ptr(e.req.status)

\* C17: with the registry enabled, a request with a well-formed token is
\* checked against the token's entry as the control-plane calls made before
\* the request left it, calls for other tokens leaving it alone: absent gives
\* 401 'token not registered', banned 403, deactivated 401, any other status
\* passes.
C17_TokenCheckFollowsEntry ==
    registryEnabled =>
        \A i \in BotEntries :
            ValidateFormat(log[i].req.token) =>
                LET e == EntryAfter(log[i].req.token, log[i].at)
                    answered(code, desc) ==
                        /\ log[i].resp.status = code
                        /\ HasError(i)
                        /\ log[i].resp.body["description"] = Str(desc)
                IN  IF IsNil(e) THEN answered(401, NotRegistered)
                    ELSE IF Deref(e) = "banned" THEN answered(403, WasBanned)
                    ELSE IF Deref(e) = "deactivated" THEN answered(401, WasDeactivated)
                    ELSE ~RejectedByRegistry(i)

\* A token that was absent was registered and the request that followed
\* passed the token checks, while a request with the other token was answered
\* as before.
C17_ChangeApplied ==
    /\ registryEnabled
    /\ Len(log) = 3
    /\ log[1].plane = "control"
    /\ log[1].req.method = "registerToken"
    /\ log[1].req.token = Token2
    /\ log[1].req.status = ""
    /\ log[2].plane = "bot" /\ log[2].req.token = Token2 /\ log[2].resp.status = 200
    /\ log[3].plane = "bot" /\ log[3].req.token = Token1 /\ log[3].resp.status = 200

\* ------------------------------------------------------- header scenarios
\* Requests that name an error in X-TG-Mock-Scenario, with and without an
\* X-TG-Mock-Retry-After header, on a server with no registry and no scenario.

MaxHeaderRequests == 3

HeaderNames == {"rate_limit", "bot_blocked"}
RetryHeaders == {"", "0", "5", "-1", "soon"}

SendMessageWith(name, retry) ==
    Request(Token1, "sendMessage", EmptyMap,
            JsonBody([chat_id |-> F64(1), text |-> Str("hi")]), name, retry)

HeaderRequests ==
    {SendMessageWith(name, retry) : name \in HeaderNames, retry \in RetryHeaders}
        \cup {SendMessageWith("", ""), SendMessageWith("no_such_error", "5")}

InitHeader == ServerNew(EmptyMap) /\ Budget(MaxHeaderRequests, 0)

NextHeader ==
    \/ \E t \in Threads, r \in HeaderRequests : HandleStart(t, r)
    \/ \E t \in Threads : HandleFinish(t)

SpecHeader == InitHeader /\ [][NextHeader]_vars

\* The headers that carry an integer, and the integer.
IntegerHeaders == {"0", "5", "-1"}
HeaderInteger(s) == CASE s = "0" -> 0 [] s = "5" -> 5 [] OTHER -> 0 - 1

\* Exchange i answered a header scenario of the table.
HeaderAnswered(i) ==
    /\ log[i].plane = "bot"
    /\ log[i].req.scenarioHdr \in DOMAIN BuiltinErrors

\* Exchange i carries parameters.retry_after = n.
RetryAfterIs(i, n) ==
    /\ "parameters" \in DOMAIN log[i].resp.body
    /\ log[i].resp.body["parameters"] = <<"map", [retry_after |-> I64(n)]>>

\* Exchange i carries what the table's entry says: its retry_after when the
\* entry has one, no parameters otherwise.
BuiltinRetryAfter(i) ==
    LET e == BuiltinErrors[log[i].req.scenarioHdr]
    IN  IF e.RetryAfter > 0 THEN RetryAfterIs(i, e.RetryAfter)
        ELSE "parameters" \notin DOMAIN log[i].resp.body

\* C18 as stated: an X-TG-Mock-Retry-After: n header on a request with a known
\* scenario name sets parameters.retry_after of that response to n, whatever
\* the integer n; a request with the name and no such header gets the table's
\* retry_after, and the table never changes.
C18_OverrideSetsRetryAfter ==
    /\ builtinErrors = BuiltinErrors
    /\ \A i \in 1..Len(log) :
          HeaderAnswered(i) =>
              /\ log[i].req.retryHdr \in IntegerHeaders
                    => RetryAfterIs(i, HeaderInteger(log[i].req.retryHdr))
              /\ log[i].req.retryHdr = "" => BuiltinRetryAfter(i)

\* C18, amended: an X-TG-Mock-Retry-After: n header with an integer n > 0 on a
\* request with a known scenario name sets parameters.retry_after of that one
\* response to n; with an integer n <= 0 the response has no parameters; the
\* table never changes, so a request with the name and no such header, before
\* or after, gets the table's retry_after (30 for rate_limit).
C18_PositiveOverrideSetsRetryAfter ==
    /\ builtinErrors = BuiltinErrors
    /\ \A i \in 1..Len(log) :
          HeaderAnswered(i) =>
              /\ log[i].resp.status = BuiltinErrors[log[i].req.scenarioHdr].ErrorCode
              /\ log[i].req.retryHdr \in IntegerHeaders
                    => IF HeaderInteger(log[i].req.retryHdr) > 0
                       THEN RetryAfterIs(i, HeaderInteger(log[i].req.retryHdr))
                       ELSE "parameters" \notin DOMAIN log[i].resp.body
              /\ log[i].req.retryHdr = "" => BuiltinRetryAfter(i)

\* rate_limit answered with the override 5 and, later, with no override and
\* the table's 30.
C18_OverrideThenBuiltin ==
    \E i, j \in 1..Len(log) :
        /\ i < j
        /\ log[i].req = SendMessageWith("rate_limit", "5")
        /\ RetryAfterIs(i, 5)
        /\ log[j].req = SendMessageWith("rate_limit", "")
        /\ log[j].at >= i
        /\ RetryAfterIs(j, 30)

\* Exchange i is a bot-plane error response that carries parameters.retry_after.
CarriesRetryAfter(i) ==
    /\ log[i].plane = "bot"
    /\ "ok" \in DOMAIN log[i].resp.body
    /\ log[i].resp.body["ok"] = Bool(FALSE)
    /\ "parameters" \in DOMAIN log[i].resp.body

\* C19: a bot-plane error response carries parameters.retry_after only when
\* its error_code is 429.
C19_RetryAfterOnlyOn429 ==
    \A i \in 1..Len(log) :
        CarriesRetryAfter(i) =>
            /\ log[i].resp.status = 429
            /\ log[i].resp.body["error_code"] = I64(429)

\* A 429 that carries retry_after and a 403 that carries none.
C19_RetryAfterOn429 ==
    \E i, j \in 1..Len(log) :
        /\ CarriesRetryAfter(i)
        /\ log[i].resp.status = 429
        /\ log[j].plane = "bot"
        /\ log[j].resp.status = 403
        /\ "parameters" \notin DOMAIN log[j].resp.body

\* ------------------------------------------------------------------- reset
\* POST /__control/reset takes the three stores one after the other, each
\* under its own mutex, so other calls can run between its steps; the handler
\* runs on a goroutine of its own like any request.

MaxResetRequests == 1
MaxResetControls == 3

EngineList(scn) == scn

RecorderCount(reqs) == Len(reqs)

\* A goroutine in reset, about to take the store that pc names; had is how
\* much the stores taken so far held.
InReset(t, pc, had) ==
    [pc |-> pc, alone |-> thr[t].alone, at |-> thr[t].at, had |-> had]

\* reset, first step: Engine.Clear.
ControlResetScenarios(t) ==
    /\ calls.ctls < budget.ctls
    /\ thr[t].pc = "idle"
    /\ \A u \in Threads : u < t => thr[u].pc # "idle"
    /\ scenarios' = EngineClear(scenarios)
    /\ thr' = [u \in Threads |->
                IF u = t
                THEN [pc |-> "resetUpdates", alone |-> AllIdle, at |-> Len(log),
                      had |-> <<Len(scenarios)>>]
                ELSE IF thr[u].pc = "idle" THEN thr[u]
                ELSE [thr[u] EXCEPT !.alone = FALSE]]
    /\ calls' = [calls EXCEPT !.ctls = @ + 1]
    /\ UNCHANGED <<registryEnabled, tokens, engineIdCounter, updates,
                   queueIdCounter, webhooks, requests, recorderIdCounter, faker,
                   fakers, builtinErrors, log, hist, budget>>

\* A second step of reset that also starts the queue's ids again.
ControlResetUpdatesAndIds(t) ==
    /\ thr[t].pc = "resetUpdates"
    /\ updates' = QueueClear(updates)
    /\ queueIdCounter' = 0
    /\ thr' = [thr EXCEPT ![t] = InReset(t, "resetRequests",
                                          Append(thr[t].had, Len(updates)))]
    /\ UNCHANGED <<registryEnabled, tokens, scenarios, engineIdCounter, webhooks,
                   requests, recorderIdCounter, faker, fakers, builtinErrors, log,
                   hist, calls, budget>>

\* reset, second step: Queue.Clear.
ControlResetUpdates(t) ==
    /\ thr[t].pc = "resetUpdates"
    /\ updates' = QueueClear(updates)
    /\ thr' = [thr EXCEPT ![t] = InReset(t, "resetRequests",
                                          Append(thr[t].had, Len(updates)))]
    /\ UNCHANGED <<registryEnabled, tokens, scenarios, engineIdCounter,
                   queueIdCounter, webhooks, requests, recorderIdCounter, faker,
                   fakers, builtinErrors, log, hist, calls, budget>>

\* reset, last step: Recorder.Clear and the 204. at is how many exchanges had
\* completed when the reset began, had how much each store held when taken.
ControlResetRequests(t) ==
    /\ thr[t].pc = "resetRequests"
    /\ requests' = RecorderClear(requests)
    /\ log' = Append(log,
           [plane |-> "control",
            req |-> [method |-> "reset", at |-> thr[t].at,
                     had |-> Append(thr[t].had, Len(requests))],
            resp |-> [status |-> 204, body |-> EmptyMap]])
    /\ thr' = [thr EXCEPT ![t] = Idle]
    /\ UNCHANGED <<registryEnabled, tokens, scenarios, engineIdCounter, updates,
                   queueIdCounter, webhooks, recorderIdCounter, faker, fakers,
                   builtinErrors, hist, calls, budget>>

\* GET /__control/state: the three counts. The reads are taken together; the
\* property below is about a getState during which no other call completes.
ControlGetState ==
    /\ calls.ctls < budget.ctls
    /\ log' = Append(log,
           [plane |-> "control", req |-> [method |-> "getState"],
            resp |-> [status |-> 200,
                      body |-> [scenarios_count |-> I64(Len(EngineList(scenarios))),
                                updates_pending |-> I64(QueuePending(updates)),
                                requests_recorded |-> I64(RecorderCount(requests))]]])
    /\ calls' = [calls EXCEPT !.ctls = @ + 1]
    /\ UNCHANGED <<registryEnabled, tokens, scenarios, engineIdCounter, updates,
                   queueIdCounter, webhooks, requests, recorderIdCounter, faker,
                   fakers, builtinErrors, thr, hist, budget>>

ResetRequests == {SendMessageOk}
ResetScenarios == {ErrorScenario("sendMessage", 1, 429)}

InitReset == ServerNew(EmptyMap) /\ Budget(MaxResetRequests, MaxResetControls)

NextReset ==
    \/ \E t \in Threads, r \in ResetRequests : HandleStart(t, r)
    \/ \E t \in Threads : HandleFinish(t)
    \/ \E s \in ResetScenarios : ControlAddScenario(s)
    \/ \E id \in UpdateIds : ControlAddUpdate(id)
    \/ \E t \in Threads : ControlResetScenarios(t)
    \/ \E t \in Threads : ControlResetUpdates(t)
    \/ \E t \in Threads : ControlResetRequests(t)
    \/ ControlGetState

SpecReset == InitReset /\ [][NextReset]_vars

\* Exchange i is a reset during which no other exchange completed.
ResetUndisturbed(i) ==
    /\ log[i].plane = "control"
    /\ log[i].req.method = "reset"
    /\ log[i].req.at = i - 1

IsGetState(i) ==
    /\ log[i].plane = "control"
    /\ log[i].req.method = "getState"

StateReported(i, s, u, r) ==
    log[i].resp.body = [scenarios_count |-> I64(s), updates_pending |-> I64(u),
                        requests_recorded |-> I64(r)]

\* C20: once POST /__control/reset has answered, whatever state preceded it,
\* the scenario list is empty, the update queue has no pending updates and the
\* inspector has no records, and a GET /__control/state that follows reports 0
\* for scenarios_count, updates_pending and requests_recorded. "After" is read
\* as: with no other exchange completing while the reset runs, nor between it
\* and the getState.
C20_ResetEmptiesStores ==
    /\ (Len(log) > 0 /\ ResetUndisturbed(Len(log)))
          => scenarios = <<>> /\ updates = <<>> /\ requests = <<>>
    /\ \A i \in 2..Len(log) :
          (IsGetState(i) /\ ResetUndisturbed(i - 1)) => StateReported(i, 0, 0, 0)

\* A reset that found a record and a scenario or an update, then a getState.
C20_ResetAfterWork ==
    \E i \in 1..Len(log) :
        /\ ResetUndisturbed(i)
        /\ log[i].req.had[3] >= 1
        /\ log[i].req.had[1] >= 1 \/ log[i].req.had[2] >= 1
        /\ i < Len(log)
        /\ IsGetState(i + 1)

\* ------------------------------------------ updates injected with their id

\* Entry m injected an update that carried an update_id.
AddedWithId(m) == IsAddUpdate(m) /\ ~IsNil(log[m].req.id)

\* Entry i polled or listed the queue.
ReadsQueue(i) ==
    \/ log[i].plane = "bot" /\ log[i].req.method = "getUpdates"
    \/ log[i].plane = "control" /\ log[i].req.method = "listUpdates"

\* C21: an update injected through POST /__control/updates with an update_id
\* is stored under that id, the call returns that id, and later getUpdates and
\* GET /__control/updates calls keep succeeding and return the update.
C21_PresetIdKept ==
    \A m \in 1..Len(log) :
        AddedWithId(m) =>
            /\ log[m].resp.status = 201
            /\ ValOf(log[m].resp.body["update_id"]) = ValOf(Deref(log[m].req.id))
            /\ \A i \in (m + 1)..Len(log) :
                  (ReadsQueue(i) /\ log[i].at >= m
                     /\ log[i].req \notin {GetUpdatesFrom("2"), GetUpdatesJson(3)}
                     /\ ~\E k \in 1..(i - 1) : log[k].plane = "bot"
                                               /\ log[k].req = SetWebhook)
                  => /\ log[i].resp.status = 200
                     /\ \E n \in 1..Len(Returned(i)) :
                           ValOf(Returned(i)[n].update_id)
                               = ValOf(Deref(log[m].req.id))

\* An update was injected with an id and the queue was read afterwards.
C21_InjectedThenRead ==
    \E m, i \in 1..Len(log) :
        /\ AddedWithId(m)
        /\ m < i
        /\ ReadsQueue(i)

\* ------------------------------------------- the webhook registry on its own
\* webhook.Registry driven directly, as its tests drive it: Set, Delete, the
\* readers and Deliver. Every method but Deliver is one critical section of
\* the registry's RWMutex. Deliver copies the URL and the secret under the
\* read lock, makes the HTTP call, and takes the write lock to note the
\* outcome on whatever configuration the token has by then. The answer of the
\* bot's server is an input: a transport error, or a status and a body.
\*
\* The registry at hand has no method-in-response handling; the registry its
\* tests exercise (NewRegistry(executor), DeliveryResult.MethodResult) is
\* modelled from the specification's "Method-in-response round-tripping".

MaxDeliveries == 2      \* Deliver calls explored on the bare registry
MaxRegistryOps == 2     \* Set, Delete and reader calls explored on the bare registry

\* The Config that Set is handed: a new object oid with no error noted.
NewConfig(url, oid) ==
    [URL |-> url, SecretToken |-> "", LastErrorDate |-> Nil,
     LastErrorMessage |-> "", oid |-> oid]

\* What the bot's server can answer a delivery with.
TransportError == [kind |-> "error", status |-> 0, body |-> ""]
HookResponse(status, body) == [kind |-> "response", status |-> status, body |-> body]

\* Response bodies: not JSON, JSON without a method field, a method the method
\* table knows, a method it does not know.
HookBodies == {"not json", "{}", "sendMessage", "unknownMethod"}
HookStatuses == {200, 500}
HookOutcomes ==
    {TransportError} \cup {HookResponse(s, b) : s \in HookStatuses, b \in HookBodies}

\* The method a response body names, "" when it is not JSON or has no method.
BodyMethod(body) == IF body \in {"sendMessage", "unknownMethod"} THEN body ELSE ""

\* result.Success, were every answer taken for a success.
DeliverySuccessAlways(status) == TRUE

\* result.Success: resp.StatusCode >= 200 && resp.StatusCode < 300.
DeliverySuccess(status) == status >= 200 /\ status < 300

\* resp.Status, which Deliver notes as the error of a non-2xx answer.
StatusText(status) == IF status = 200 THEN "200 OK" ELSE "500 Internal Server Error"

\* Whether Deliver still holds the read lock when it makes the HTTP call, were
\* the RUnlock put off to the end of Deliver.
RLockKeptForCallAlways == TRUE

\* Whether Deliver still holds the read lock when it makes the HTTP call: it
\* calls RUnlock once the URL and the secret are copied.
RLockKeptForCall == FALSE

\* A goroutine is inside Deliver's HTTP call holding the read lock.
RLockHeld == \E u \in Threads : thr[u].pc = "sent" /\ thr[u].rlock

\* The method-in-response part of a delivery: nothing unless the delivery
\* succeeded and the body names a method; a known method is executed and its
\* result attached, an unknown one gives a MethodResult with an error.
MethodResultOf(success, body) ==
    LET method == BodyMethod(body)
    IN  IF ~success \/ method = "" THEN [executed |-> "", result |-> Nil]
        ELSE IF method \in Methods
             THEN [executed |-> method,
                   result |-> Ptr([Method |-> method, Error |-> ""])]
             ELSE [executed |-> "",
                   result |-> Ptr([Method |-> method,
                                   Error |-> "unknown method"])]

\* A noting of the outcome that leaves an earlier error in place on success.
NoteOutcomeFailuresOnly(wh, token, failed, now, message) ==
    IF token \notin DOMAIN wh \/ ~failed THEN wh
    ELSE [wh EXCEPT ![token] =
            [@ EXCEPT !.LastErrorDate = Ptr(now), !.LastErrorMessage = message]]

\* The configuration of the token after Deliver noted an outcome: nothing is
\* noted when the token has no configuration by then.
NoteOutcome(wh, token, failed, now, message) ==
    IF token \notin DOMAIN wh THEN wh
    ELSE [wh EXCEPT ![token] =
            [@ EXCEPT !.LastErrorDate = IF failed THEN Ptr(now) ELSE Nil,
                      !.LastErrorMessage = IF failed THEN message ELSE ""]]

RegistryLog(method, token, arg, at, resp) ==
    [plane |-> "registry",
     req |-> [method |-> method, token |-> token, arg |-> arg, at |-> at],
     resp |-> resp]

\* Registry.Set with a new Config. A writer waits for the readers.
RSet(token, url) ==
    /\ calls.ctls < budget.ctls
    /\ ~RLockHeld
    /\ webhooks' = WebhookSet(webhooks, token, NewConfig(url, Len(log) + 1))
    /\ log' = Append(log, RegistryLog("Set", token, url, Len(log), TRUE))
    /\ calls' = [calls EXCEPT !.ctls = @ + 1]
    /\ UNCHANGED <<registryEnabled, tokens, scenarios, engineIdCounter, updates,
                   queueIdCounter, requests, recorderIdCounter, faker, fakers,
                   builtinErrors, thr, hist, budget>>

\* Registry.Delete.
RDelete(token) ==
    /\ calls.ctls < budget.ctls
    /\ ~RLockHeld
    /\ webhooks' = WebhookDelete(webhooks, token)
    /\ log' = Append(log, RegistryLog("Delete", token, "", Len(log),
                                      token \in DOMAIN webhooks))
    /\ calls' = [calls EXCEPT !.ctls = @ + 1]
    /\ UNCHANGED <<registryEnabled, tokens, scenarios, engineIdCounter, updates,
                   queueIdCounter, requests, recorderIdCounter, faker, fakers,
                   builtinErrors, thr, hist, budget>>

\* The readers: Get, IsActive and GetInfo, each under the read lock, which
\* readers share.
RRead(method, token) ==
    /\ calls.ctls < budget.ctls
    /\ log' = Append(log, RegistryLog(method, token, "", Len(log),
              CASE method = "Get" ->
                      IF token \in DOMAIN webhooks THEN Ptr(webhooks[token]) ELSE Nil
                [] method = "IsActive" -> IsActive(webhooks, token)
                [] OTHER -> GetInfo(webhooks, token, 0)))
    /\ calls' = [calls EXCEPT !.ctls = @ + 1]
    /\ UNCHANGED <<registryEnabled, tokens, scenarios, engineIdCounter, updates,
                   queueIdCounter, webhooks, requests, recorderIdCounter, faker,
                   fakers, builtinErrors, thr, hist, budget>>

Readers == {"Get", "IsActive", "GetInfo"}

\* Deliver up to the HTTP call: with no configuration, or an empty URL, it
\* returns at once; otherwise the URL and the secret are copied and the call
\* is made.
DeliverStart(t, token) ==
    /\ calls.reqs < budget.reqs
    /\ thr[t].pc = "idle"
    /\ \A u \in Threads : u < t => thr[u].pc # "idle"
    /\ calls' = [calls EXCEPT !.reqs = @ + 1]
    /\ IF ~IsActive(webhooks, token)
       THEN /\ log' = Append(log, RegistryLog("Deliver", token, Nil, Len(log),
                         [Success |-> FALSE, StatusCode |-> 0,
                          Error |-> "no webhook configured",
                          MethodResult |-> Nil, executed |-> ""]))
            /\ thr' = thr
       ELSE /\ thr' = [thr EXCEPT ![t] =
                         [pc |-> "sent", token |-> token,
                          url |-> webhooks[token].URL,
                          secret |-> webhooks[token].SecretToken,
                          at |-> Len(log), rlock |-> RLockKeptForCall]]
            /\ log' = log
    /\ UNCHANGED <<registryEnabled, tokens, scenarios, engineIdCounter, updates,
                   queueIdCounter, webhooks, requests, recorderIdCounter, faker,
                   fakers, builtinErrors, hist, budget>>

\* Deliver from the answer of the HTTP call on: the outcome is noted under the
\* write lock and the result returned. The clock reads the number of the
\* exchange, so a later reading is a later time.
DeliverFinish(t, out) ==
    /\ thr[t].pc = "sent"
    /\ \A u \in Threads : thr[u].pc = "sent" => ~thr[u].rlock
    /\ LET token == thr[t].token
           success == out.kind = "response" /\ DeliverySuccess(out.status)
           message == IF out.kind = "error" THEN "connection refused"
                      ELSE StatusText(out.status)
           now == Len(log) + 1
           mr == IF out.kind = "error" THEN [executed |-> "", result |-> Nil]
                 ELSE MethodResultOf(success, out.body)
       IN  /\ webhooks' = NoteOutcome(webhooks, token, ~success, now, message)
           /\ log' = Append(log, RegistryLog("Deliver", token, Ptr(out), thr[t].at,
                         [Success |-> success, StatusCode |-> out.status,
                          Error |-> IF success THEN "" ELSE message,
                          MethodResult |-> mr.result, executed |-> mr.executed]))
    /\ thr' = [thr EXCEPT ![t] = Idle]
    /\ UNCHANGED <<registryEnabled, tokens, scenarios, engineIdCounter, updates,
                   queueIdCounter, requests, recorderIdCounter, faker, fakers,
                   builtinErrors, hist, calls, budget>>

RegistryTokens == {Token1}
RegistryUrls == {"https://bot.example/hook", ""}

InitRegistry == ServerNew(EmptyMap) /\ Budget(MaxDeliveries, MaxRegistryOps)

NextRegistry ==
    \/ \E token \in RegistryTokens, url \in RegistryUrls : RSet(token, url)
    \/ \E token \in RegistryTokens : RDelete(token)
    \/ \E method \in Readers, token \in RegistryTokens : RRead(method, token)
    \/ \E t \in Threads, token \in RegistryTokens : DeliverStart(t, token)
    \/ \E t \in Threads, out \in HookOutcomes : DeliverFinish(t, out)

SpecRegistry == InitRegistry /\ [][NextRegistry]_vars

\* Entry i is a delivery that got an answer, or none, from the bot's server.
Delivered(i) ==
    /\ log[i].plane = "registry"
    /\ log[i].req.method = "Deliver"
    /\ ~IsNil(log[i].req.arg)

\* C22: when a webhook delivery receives a non-2xx response whose body names a
\* method, the method is never executed and the DeliveryResult has no
\* MethodResult.
C22_Non2xxNeverExecutes ==
    \A i \in 1..Len(log) :
        (/\ Delivered(i)
         /\ Deref(log[i].req.arg).kind = "response"
         /\ Deref(log[i].req.arg).status \notin 200..299
         /\ BodyMethod(Deref(log[i].req.arg).body) # "")
        => /\ log[i].resp.executed = ""
           /\ IsNil(log[i].resp.MethodResult)
           /\ ~log[i].resp.Success

\* A 500 whose body names sendMessage was delivered, and so was a 200 whose
\* body names it, which was executed.
C22_MethodIn500AndIn200 ==
    \E i, j \in 1..Len(log) :
        /\ Delivered(i)
        /\ Deref(log[i].req.arg) = HookResponse(500, "sendMessage")
        /\ Delivered(j)
        /\ Deref(log[j].req.arg) = HookResponse(200, "sendMessage")
        /\ log[j].resp.executed = "sendMessage"

\* ----------------------------------------------------- what Get returns

\* The queued updates that Get(offset, _) is to choose from, in queue order.
QueuedFrom(q, offset) == SelectSeq(q, LAMBDA u : offset = 0 \/ IdOf(u) >= offset)

Smaller(a, b) == IF a <= b THEN a ELSE b

\* C23: for every offset and every limit >= 0, Get(offset, limit) returns, in
\* insertion order, exactly the first min(limit, m) of the m queued updates
\* with update_id >= offset (all of them count when offset = 0), so the result
\* never has more than limit elements.
C23_GetReturnsFirstLimit ==
    hist.last = "Get" =>
        LET g == Deref(hist.got)
            from == QueuedFrom(updates, g.offset)
        IN  /\ g.result = SubSeq(from, 1, Smaller(g.limit, Len(from)))
            /\ Len(g.result) <= g.limit

\* A Get with limit 1 and an offset above 0 returned the first of two updates
\* it could choose from, out of three queued.
C23_LimitCutTheResult ==
    /\ hist.last = "Get"
    /\ Deref(hist.got).limit = 1
    /\ Deref(hist.got).offset > 0
    /\ Len(updates) = 3
    /\ Len(QueuedFrom(updates, Deref(hist.got).offset)) = 2
    /\ Deref(hist.got).result = <<updates[2]>>

\* ------------------------------------------- the scenario engine on its own
\* scenario.Engine and its scenarios driven directly: Add and Remove under the
\* engine's write lock, Find under its read lock, Use on a scenario that is in
\* the list. Use is one atomic add, and what it returns is computed from the
\* value that add gave, so goroutines calling Use take turns at the add.

MaxEngineAdds == 2      \* Add and Remove calls explored on the bare engine
MaxEngineCalls == 2     \* Use and Find calls explored on the bare engine

\* A scenario for a method, with a bound and a match map.
MatchScenario(method, times, match) ==
    [Scenario(method, times, Nil, EmptyMap) EXCEPT !.Match = match]

EngineScenarios ==
    {MatchScenario("sendMessage", 1, EmptyMap),
     MatchScenario("*", 0, EmptyMap),
     MatchScenario("sendMessage", 2, [chat_id |-> F64(1)]),
     MatchScenario("*", 1, [chat_id |-> F64(1)]),
     MatchScenario("sendMessage", 1, [reply_markup |-> <<"map", EmptyMap>>]),
     MatchScenario("sendMessage", 0 - 1, EmptyMap)}

\* What Find is asked: a method and the params of a request.
FindCalls ==
    {<<"sendMessage", EmptyMap>>, <<"sendMessage", [chat_id |-> F64(1)]>>,
     <<"sendMessage", [chat_id |-> Str("1")]>>, <<"getMe", EmptyMap>>,
     <<"sendMessage", [reply_markup |-> <<"map", EmptyMap>>]>>}

EngineLog(req, resp) == [plane |-> "engine", req |-> req, resp |-> resp]

EAdd(s) ==
    /\ calls.ctls < budget.ctls
    /\ LET r == EngineAdd(scenarios, engineIdCounter,
                          [s EXCEPT !.oid = calls.scens + 1])
       IN  /\ scenarios' = r.scenarios
           /\ engineIdCounter' = r.idCounter
           /\ log' = Append(log, EngineLog([method |-> "Add", oid |-> calls.scens + 1,
                                            times |-> s.Times], r.id))
    /\ calls' = [calls EXCEPT !.ctls = @ + 1, !.scens = @ + 1]
    /\ UNCHANGED <<registryEnabled, tokens, updates, queueIdCounter, webhooks,
                   requests, recorderIdCounter, faker, fakers, builtinErrors, thr,
                   hist, budget>>

ERemove(id) ==
    /\ calls.ctls < budget.ctls
    /\ LET r == EngineRemove(scenarios, id)
       IN  /\ scenarios' = r.scenarios
           /\ log' = Append(log, EngineLog([method |-> "Remove", id |-> id], r.removed))
    /\ calls' = [calls EXCEPT !.ctls = @ + 1]
    /\ UNCHANGED <<registryEnabled, tokens, engineIdCounter, updates, queueIdCounter,
                   webhooks, requests, recorderIdCounter, faker, fakers,
                   builtinErrors, thr, hist, budget>>

\* Use on the scenario at place i of the list.
EUse(i) ==
    /\ calls.reqs < budget.reqs
    /\ i \in DOMAIN scenarios
    /\ scenarios' = [scenarios EXCEPT ![i] = Use(@)]
    /\ log' = Append(log, EngineLog([method |-> "Use", oid |-> scenarios[i].oid,
                                     times |-> scenarios[i].Times],
                                    UseReturns(scenarios[i])))
    /\ calls' = [calls EXCEPT !.reqs = @ + 1]
    /\ UNCHANGED <<registryEnabled, tokens, engineIdCounter, updates, queueIdCounter,
                   webhooks, requests, recorderIdCounter, faker, fakers,
                   builtinErrors, thr, hist, budget>>

\* Find; the entry keeps the list the call saw and the oid it returned, 0 for
\* nil, or that it panicked.
EFind(method, params) ==
    /\ calls.reqs < budget.reqs
    /\ LET panic == FindPanics(scenarios, method, params)
           i == IF panic THEN 0 ELSE Find(scenarios, method, params)
       IN  log' = Append(log, EngineLog([method |-> "Find", asked |-> method,
                                         params |-> params, scn |-> scenarios],
                                        [panic |-> panic,
                                         oid |-> IF i = 0 THEN 0
                                                 ELSE scenarios[i].oid]))
    /\ calls' = [calls EXCEPT !.reqs = @ + 1]
    /\ UNCHANGED <<registryEnabled, tokens, scenarios, engineIdCounter, updates,
                   queueIdCounter, webhooks, requests, recorderIdCounter, faker,
                   fakers, builtinErrors, thr, hist, budget>>

InitEngine == ServerNew(EmptyMap) /\ Budget(MaxEngineCalls, MaxEngineAdds)

NextEngine ==
    \/ \E s \in EngineScenarios : EAdd(s)
    \/ \E n \in 1..MaxEngineAdds : ERemove(ScenarioName(n))
    \/ \E i \in 1..MaxEngineAdds : EUse(i)
    \/ \E call \in FindCalls : EFind(call[1], call[2])

SpecEngine == InitEngine /\ [][NextEngine]_vars

\* The Use calls made so far on the scenario object oid, and those of them
\* that returned true.
UsesOf(oid) ==
    {i \in 1..Len(log) : log[i].plane = "engine" /\ log[i].req.method = "Use"
                         /\ log[i].req.oid = oid}

TrueUsesOf(oid) == {i \in UsesOf(oid) : log[i].resp}

\* The scenario objects added so far, each with its times.
Added == {i \in 1..Len(log) : log[i].plane = "engine" /\ log[i].req.method = "Add"}

\* C24: for a scenario with times = N > 0, among any K Use() calls, sequential
\* or concurrent, exactly min(K, N) return true.
C24_ExactlyTimesUsesSucceed ==
    \A a \in Added :
        log[a].req.times > 0 =>
            Cardinality(TrueUsesOf(log[a].req.oid))
                = Smaller(Cardinality(UsesOf(log[a].req.oid)), log[a].req.times)

\* A scenario with times 1 was used twice.
C24_UsedBeyondTimes ==
    \E a \in Added :
        /\ log[a].req.times = 1
        /\ Cardinality(UsesOf(log[a].req.oid)) = 2

\* The scenario s, as a Find call saw it, is one the call may return: its
\* method is the one asked or "*", every key of its match map is in the params
\* with an equal value of the same type, and it is not exhausted.
MayBeFound(s, method, params) ==
    /\ s.Method \in {method, "*"}
    /\ \A k \in DOMAIN s.Match : k \in DOMAIN params /\ params[k] = s.Match[k]
    /\ ~(s.Times > 0 /\ s.used >= s.Times)

IsFind(i) == log[i].plane = "engine" /\ log[i].req.method = "Find"

\* C25: Find(method, params) returns the earliest-inserted scenario that
\* matches (method equal or "*", every match key present in params with an
\* equal value) and is not exhausted, or nothing if there is none; a later
\* matching scenario is returned only once every earlier matching scenario is
\* exhausted or removed.
C25_FindReturnsEarliest ==
    \A i \in 1..Len(log) :
        IsFind(i) =>
            LET scn == log[i].req.scn
                hits == {k \in DOMAIN scn :
                            MayBeFound(scn[k], log[i].req.asked, log[i].req.params)}
            IN  /\ ~log[i].resp.panic
                /\ IF hits = {} THEN log[i].resp.oid = 0
                   ELSE \E k \in hits : /\ \A j \in hits : k <= j
                                        /\ log[i].resp.oid = scn[k].oid

\* With two scenarios in the list that match but for exhaustion, the first
\* one exhausted, Find returned the second.
C25_LaterOneFound ==
    \E i \in 1..Len(log) :
        /\ IsFind(i)
        /\ Len(log[i].req.scn) = 2
        /\ log[i].req.scn[1].Times > 0
        /\ log[i].req.scn[1].used >= log[i].req.scn[1].Times
        /\ log[i].req.scn[1].Method \in {log[i].req.asked, "*"}
        /\ ~log[i].resp.panic
        /\ log[i].resp.oid = log[i].req.scn[2].oid

\* The scenario objects in the list that were added with the bound times.
ListedWith(times) == {k \in DOMAIN scenarios : scenarios[k].Times = times}

\* C26: in every reachable state a scenario is exhausted exactly when
\* times > 0 and used >= times, used being the Use calls made on it; a
\* scenario with times = 0 is never exhausted and Use() on it returns true
\* after any number of uses.
C26_ExhaustedIffUsedUp ==
    \A k \in DOMAIN scenarios :
        LET s == scenarios[k]
            uses == Cardinality(UsesOf(s.oid))
        IN  /\ Exhausted(s) <=> (s.Times > 0 /\ uses >= s.Times)
            /\ s.Times = 0 => /\ ~Exhausted(s)
                              /\ TrueUsesOf(s.oid) = UsesOf(s.oid)

\* An unlimited scenario was used twice while a scenario with times 1 was in
\* the list.
C26_UnlimitedUsedTwice ==
    /\ \E k \in ListedWith(0) : Cardinality(UsesOf(scenarios[k].oid)) = 2
    /\ ListedWith(1) # {}

\* The deliveries to the token that completed after exchange n.
CompletedSince(token, n) ==
    {j \in (n + 1)..Len(log) : Delivered(j) /\ log[j].req.token = token}

Latest(J) == CHOOSE j \in J : \A k \in J : k <= j

ErrorNoted(cfg) == ~IsNil(cfg.LastErrorDate) /\ cfg.LastErrorMessage # ""
NothingNoted(cfg) == IsNil(cfg.LastErrorDate) /\ cfg.LastErrorMessage = ""

MaxPrecedenceRequests == 2
MaxPrecedenceAdds == 2

SendMessageNoTextWith(name) ==
    Request(Token1, "sendMessage", EmptyMap, JsonBody([chat_id |-> F64(1)]), name, "")

PrecedenceRequests ==
    {SendMessageNoTextWith(name) : name \in {"", "rate_limit", "no_such_error"}}

PrecedenceScenarios ==
    {ErrorScenario("sendMessage", 1, c) : c \in ScenarioErrorCodes}
        \cup {DataScenario("sendMessage", 1)}

InitPrecedence ==
    ServerNew(EmptyMap) /\ Budget(MaxPrecedenceRequests, MaxPrecedenceAdds)

NextPrecedence ==
    \/ \E t \in Threads, r \in PrecedenceRequests : HandleStart(t, r)
    \/ \E t \in Threads : HandleFinish(t)
    \/ \E s \in PrecedenceScenarios : ControlAddScenario(s)

SpecPrecedence == InitPrecedence /\ [][NextPrecedence]_vars

\* Exchange i was answered with the validation error for the missing text.
IsValidationError(i) ==
    /\ log[i].resp.status = 400
    /\ HasError(i)
    /\ log[i].resp.body["description"] = Str(MissingFieldDescription("text"))

\* The request of exchange i named an error of the built-in table.
NamesBuiltin(i) == log[i].req.scenarioHdr \in DOMAIN BuiltinErrors

\* C28: a request that matches a known header scenario or a non-exhausted
\* queued error scenario receives that scenario's error even when its required
\* parameters are missing; the validation error (400 missing required field)
\* is returned only when no header scenario and no queued error scenario
\* applies to the request.
C28_ScenariosBeforeValidation ==
    \A i \in BotEntries :
        /\ NamesBuiltin(i) => IsScenarioError(i, BuiltinErrors[log[i].req.scenarioHdr])
        /\ (~NamesBuiltin(i) /\ AnsweredByScenarioError(i))
              => IsScenarioError(i, Deref(ScenarioByOid(log[i].scen).Response))
        /\ IsValidationError(i) => ~NamesBuiltin(i) /\ ~AnsweredByScenarioError(i)

\* Of two requests without text, one got the error of a queued scenario and
\* the other, which no scenario applied to, the validation error.
C28_ScenarioErrorAndValidationError ==
    \E i, j \in BotEntries :
        /\ ~NamesBuiltin(i)
        /\ AnsweredByScenarioError(i)
        /\ log[i].resp.status = 429
        /\ IsValidationError(j)

\* A goroutine is inside Deliver's HTTP call.
DeliveryInFlight == \E t \in Threads : thr[t].pc = "sent"

\* Entry k was made between the start and the end of the delivery of entry j.
DuringDelivery(k, j) ==
    /\ Delivered(j)
    /\ log[j].req.at < k
    /\ k < j

MaxRecords == 4
MaxClears == 2

\* Records as callers hand them in; an ID the caller has set is overwritten.
RecorderInputs ==
    {[RequestRecord(Token1, method, EmptyMap, "", Nil, FALSE, 200) EXCEPT !.ID = id] :
        method \in {"sendMessage", "getMe"}, id \in {0, 1}}

RecorderLog(method, resp) ==
    [plane |-> "recorder", req |-> [method |-> method], resp |-> resp]

\* Recorder.Record; the id assigned is returned.
RRecord(rec) ==
    /\ calls.reqs < budget.reqs
    /\ LET r == RecorderRecord(requests, recorderIdCounter, rec)
       IN  /\ requests' = r.requests
           /\ recorderIdCounter' = r.idCounter
           /\ log' = Append(log, RecorderLog("Record", r.requests[Len(r.requests)].ID))
    /\ calls' = [calls EXCEPT !.reqs = @ + 1]
    /\ UNCHANGED <<registryEnabled, tokens, scenarios, engineIdCounter, updates,
                   queueIdCounter, webhooks, faker, fakers, builtinErrors, thr,
                   hist, budget>>

\* Recorder.Clear.
RClear ==
    /\ calls.ctls < budget.ctls
    /\ requests' = RecorderClear(requests)
    /\ log' = Append(log, RecorderLog("Clear", Len(requests)))
    /\ calls' = [calls EXCEPT !.ctls = @ + 1]
    /\ UNCHANGED <<registryEnabled, tokens, scenarios, engineIdCounter, updates,
                   queueIdCounter, webhooks, recorderIdCounter, faker, fakers,
                   builtinErrors, thr, hist, budget>>

InitRecorder == ServerNew(EmptyMap) /\ Budget(MaxRecords, MaxClears)

NextRecorder ==
    \/ \E rec \in RecorderInputs : RRecord(rec)
    \/ RClear

SpecRecorder == InitRecorder /\ [][NextRecorder]_vars

\* The Record calls made so far.
Recorded == {i \in 1..Len(log) : log[i].req.method = "Record"}

\* C30: the ids of the records the inspector holds are strictly increasing in
\* list order in every reachable state, under any interleaving of Record and
\* Clear calls, and an id is never assigned twice, also not after Clear.
C30_RecordIdsIncreaseAndAreNeverReused ==
    /\ \A i, j \in 1..Len(requests) : i < j => requests[i].ID < requests[j].ID
    /\ \A i, j \in Recorded : i # j => log[i].resp # log[j].resp

\* Records were made, cleared, and two more made after the Clear.
C30_RecordedAfterClear ==
    \E c \in 1..Len(log) :
        /\ log[c].req.method = "Clear"
        /\ log[c].resp > 0
        /\ Len(requests) >= 2
        /\ \A i \in Recorded : i > c => \E k \in 1..Len(requests) : requests[k].ID = log[i].resp
        /\ Cardinality({i \in Recorded : i > c}) = Len(requests)

\* ------------------------------------------- one faker and its mutex
\* Concurrent callers of GenerateWithOverrides and Reset on one faker. Both
\* take f.mu, a sync.Mutex, which is not reentrant: Lock waits until the mutex
\* is free, whoever holds it. A call is followed through its Lock and its
\* body; generateArray's call back into GenerateWithOverrides is the same Lock
\* made by a goroutine that already holds the mutex.

MaxGenerateCalls == 3
MaxFakerResets == 1

\* The mutex is held by some goroutine.
FakerLocked == \E u \in Threads : thr[u].pc \in {"lock", "run"} /\ thr[u].held

\* typeName[:9] == "Array of " and typeName[9:], for the array types asked for.
ArrayTypes == {"Array of Update", "Array of User", "Array of Chat"}

IsArrayType(typeName) == typeName \in ArrayTypes

ElementType(typeName) ==
    CASE typeName = "Array of Update" -> "Update"
      [] typeName = "Array of User" -> "User"
      [] OTHER -> "Chat"

\* An arraySize that gives every array no elements.
ArraySizesNoElements(elementType) == {0}

\* arraySize: fixed for four element types, otherwise rng.Intn(3).
ArraySizes(elementType) ==
    CASE elementType = "PhotoSize" -> {3}
      [] elementType \in {"MessageEntity", "Update"} -> {0}
      [] elementType = "User" -> {1}
      [] OTHER -> {0, 1, 2}

GenerateTypes ==
    {"Message", "User", "Boolean"} \cup ArrayTypes

FakerLog(method, typeName, resp) ==
    [plane |-> "faker", req |-> [method |-> method, typeName |-> typeName], resp |-> resp]

\* A goroutine calls GenerateWithOverrides and comes to f.mu.Lock().
GCall(t, typeName) ==
    /\ calls.reqs < budget.reqs
    /\ thr[t].pc = "idle"
    /\ \A u \in Threads : u < t => thr[u].pc # "idle"
    /\ thr' = [thr EXCEPT ![t] = [pc |-> "lock", typeName |-> typeName,
                                  outer |-> typeName, held |-> FALSE]]
    /\ calls' = [calls EXCEPT !.reqs = @ + 1]
    /\ UNCHANGED <<registryEnabled, tokens, scenarios, engineIdCounter, updates,
                   queueIdCounter, webhooks, requests, recorderIdCounter, faker,
                   fakers, builtinErrors, log, hist, budget>>

\* f.mu.Lock() returns: the mutex was free.
GLock(t) ==
    /\ thr[t].pc = "lock"
    /\ ~FakerLocked
    /\ thr' = [thr EXCEPT ![t].pc = "run", ![t].held = TRUE]
    /\ UNCHANGED <<registryEnabled, tokens, scenarios, engineIdCounter, updates,
                   queueIdCounter, webhooks, requests, recorderIdCounter, faker,
                   fakers, builtinErrors, log, hist, calls, budget>>

\* The body of GenerateWithOverrides under the mutex. For an array type with
\* a positive size generateArray calls GenerateWithOverrides for the first
\* element, which comes to f.mu.Lock() with the mutex still held; otherwise
\* the value is made and the deferred Unlock runs.
GRun(t) ==
    /\ thr[t].pc = "run"
    /\ LET typeName == thr[t].typeName
       IN  IF IsArrayType(typeName)
           THEN \E size \in ArraySizes(ElementType(typeName)) :
                   IF size > 0
                   THEN /\ thr' = [thr EXCEPT ![t].pc = "lock",
                                              ![t].typeName = ElementType(typeName)]
                        /\ UNCHANGED <<faker, log>>
                   ELSE /\ thr' = [thr EXCEPT ![t] = Idle]
                        /\ log' = Append(log, FakerLog("Generate", typeName,
                                                       <<"list", <<>>>>))
                        /\ UNCHANGED faker
           ELSE IF typeName = "Boolean"
           THEN /\ thr' = [thr EXCEPT ![t] = Idle]
                /\ log' = Append(log, FakerLog("Generate", typeName, Bool(TRUE)))
                /\ UNCHANGED faker
           ELSE LET g == GenerateWithOverrides(faker, typeName, EmptyMap, Nil, 0)
                IN  /\ faker' = g.faker
                    /\ thr' = [thr EXCEPT ![t] = Idle]
                    /\ log' = Append(log, FakerLog("Generate", typeName, g.result))
    /\ UNCHANGED <<registryEnabled, tokens, scenarios, engineIdCounter, updates,
                   queueIdCounter, webhooks, requests, recorderIdCounter, fakers,
                   builtinErrors, hist, calls, budget>>

\* Faker.Reset, whole under the mutex: the counters are stored as zero.
GReset ==
    /\ calls.ctls < budget.ctls
    /\ ~FakerLocked
    /\ faker' = FakerNew
    /\ log' = Append(log, FakerLog("Reset", "", Nil))
    /\ calls' = [calls EXCEPT !.ctls = @ + 1]
    /\ UNCHANGED <<registryEnabled, tokens, scenarios, engineIdCounter, updates,
                   queueIdCounter, webhooks, requests, recorderIdCounter, fakers,
                   builtinErrors, thr, hist, budget>>

InitGenerate == ServerNew(EmptyMap) /\ Budget(MaxGenerateCalls, MaxFakerResets)

NextGenerate ==
    \/ \E t \in Threads, typeName \in GenerateTypes : GCall(t, typeName)
    \/ \E t \in Threads : GLock(t)
    \/ \E t \in Threads : GRun(t)
    \/ GReset

SpecGenerate == InitGenerate /\ [][NextGenerate]_vars

\* The messages generated so far, by place in the order of completion.
MessagesMade ==
    {i \in 1..Len(log) : log[i].req.method = "Generate" /\ log[i].req.typeName = "Message"}

MessageIdOf(i) == ValOf(ValOf(log[i].resp)["message_id"])

\* C31: the values handed out by the faker's id counters are strictly
\* increasing over the life of the faker, under any interleaving of Generate
\* calls and of Reset: two generated messages never carry the same message_id
\* and a later one carries the greater id.
C31_MessageIdsIncrease ==
    \A i, j \in MessagesMade : i < j => MessageIdOf(i) < MessageIdOf(j)

\* A message was generated, the faker reset, and another message generated.
C31_MessageResetMessage ==
    \E i, j \in MessagesMade, k \in 1..Len(log) :
        /\ i < k
        /\ k < j
        /\ log[k].req.method = "Reset"

\* The scheduler lets a goroutine whose Lock can return, or that is running
\* under the mutex, take its step.
SpecGenerateFair ==
    SpecGenerate /\ \A t \in Threads : WF_vars(GLock(t)) /\ WF_vars(GRun(t))

\* C32: every GenerateWithOverrides call terminates and releases the faker
\* lock, for every type name, arrays with a positive size included; no call
\* blocks later calls forever.
C32_EveryGenerateTerminates ==
    \A t \in Threads : (thr[t].pc # "idle") ~> (thr[t].pc = "idle")

\* A goroutine waits in Lock for the mutex it holds itself.
C32_WaitsForItsOwnLock ==
    \E t \in Threads : thr[t].pc = "lock" /\ thr[t].held

\* C33: in every reachable state, also under concurrent matching requests,
\* the used counter of a scenario with times = N > 0 satisfies
\* 0 <= used <= N.
C33_UsedWithinTimes ==
    \A i \in DOMAIN scenarios :
        scenarios[i].Times > 0 =>
            0 <= scenarios[i].used /\ scenarios[i].used <= scenarios[i].Times

\* Two requests were answered after both had found the same scenario with
\* times 1.
C33_TwoFoundTheSame ==
    \E i, j \in BotEntries :
        /\ i < j
        /\ log[i].scen # 0
        /\ log[i].scen = log[j].scen
        /\ ScenarioByOid(log[i].scen).Times = 1

\* ------------------------------------- requests that pass by the scenarios
\* Requests answered before the scenario lookup, by a header scenario, or by
\* the webhook handlers, with scenarios queued that would match them, next to
\* a request that does reach the lookup.

MaxFrameRequests == 2
MaxFrameControls == 2

SetWebhookRateLimit ==
    Request(Token1, "setWebhook", EmptyMap,
            JsonBody([url |-> Str("https://bot.example/hook")]), "rate_limit", "")

FrameRequests ==
    {SendMessageOk, SendMessageMalformedToken, SendMessageBanned, UnknownMethod,
     SendMessageBadJson, SendMessageRateLimit, SetWebhookRateLimit, DeleteWebhook,
     GetWebhookInfo}

FrameScenarios == {ErrorScenario("*", 2, 429)}

InitFrame == ServerNew(ConfiguredTokens) /\ Budget(MaxFrameRequests, MaxFrameControls)

NextFrame ==
    \/ \E t \in Threads, r \in FrameRequests : HandleStart(t, r)
    \/ \E t \in Threads : HandleFinish(t)
    \/ \E s \in FrameScenarios : ControlAddScenario(s)
    \/ ControlRegisterToken(Token2, "deactivated")
    \/ ControlDeleteToken(Token2)

SpecFrame == InitFrame /\ [][NextFrame]_vars

\* The used counters of the queued scenarios, in list order.
UsedCounters == [i \in DOMAIN scenarios |-> scenarios[i].used]

\* What Handle answers before it comes to the scenario lookup.
EarlyDescriptions ==
    {"Unauthorized: invalid token format", NotRegistered, WasBanned, WasDeactivated,
     "Not Found: method not found", "Bad Request: invalid JSON body"}

\* The exchange e was answered before the scenario lookup.
RejectedEarly(e) ==
    /\ "description" \in DOMAIN e.resp.body
    /\ \E d \in EarlyDescriptions : e.resp.body["description"] = Str(d)

\* The exchange e was answered by a header scenario.
AnsweredByHeader(e) ==
    /\ ~RejectedEarly(e)
    /\ e.req.method \in Methods
    /\ e.req.scenarioHdr \in DOMAIN BuiltinErrors

\* The exchange this step completes, if it completes one on the bot plane.
Completes(P(_)) ==
    /\ Len(log') = Len(log) + 1
    /\ log'[Len(log')].plane = "bot"
    /\ P(log'[Len(log')])

PassesByLookup(e) == RejectedEarly(e) \/ AnsweredByHeader(e)

\* C34: a bot-plane request that is rejected before the scenario lookup
\* (malformed, unregistered, banned or deactivated token, unknown method, body
\* parse error) or that is answered by a header scenario leaves the used
\* counter of every queued scenario unchanged.
C34_EarlyAnswersLeaveUsed ==
    [][Completes(PassesByLookup) => UsedCounters' = UsedCounters]_vars

\* Entry i added the scenario for every method.
AddedForAll(i) ==
    /\ log[i].plane = "control"
    /\ log[i].req.method = "addScenario"
    /\ ScenarioByOid(log[i].req.oid).Method = "*"

\* With a scenario for every method queued and unused, one request was
\* answered by a header scenario and one rejected before the lookup.
C34_PassedByMatchingScenario ==
    \E i, j, k \in DOMAIN log :
        /\ AddedForAll(i)
        /\ ScenarioByOid(log[i].req.oid).used = 0
        /\ i < j /\ i < k
        /\ log[j].plane = "bot" /\ AnsweredByHeader(log[j])
        /\ log[k].plane = "bot" /\ RejectedEarly(log[k])

WebhookMethods == {"setWebhook", "deleteWebhook", "getWebhookInfo"}

\* The errors the header table and the queued scenarios hold.
ScenarioErrorsHeld ==
    {builtinErrors[n] : n \in DOMAIN builtinErrors}
        \cup {Deref(scenarios[i].Response) :
                i \in {k \in DOMAIN scenarios : IsError(scenarios[k])}}

\* The exchange e is a webhook method's that passed the token checks.
WebhookExchange(e) == e.req.method \in WebhookMethods /\ ~RejectedEarly(e)

\* The exchange e carries the success envelope.
AnsweredOk(e) ==
    /\ e.resp.status = 200
    /\ "ok" \in DOMAIN e.resp.body
    /\ e.resp.body["ok"] = Bool(TRUE)

\* C35: setWebhook, deleteWebhook and getWebhookInfo requests are never
\* answered with a header-scenario or queued-scenario error, also not when a
\* queued scenario has method "*", and they never change a scenario's used
\* counter.
C35_WebhookMethodsPassByScenarios ==
    [][Completes(WebhookExchange) =>
          /\ AnsweredOk(log'[Len(log')])
          /\ \A e \in ScenarioErrorsHeld :
                log'[Len(log')].resp.status # e.ErrorCode
          /\ UsedCounters' = UsedCounters]_vars

\* With a scenario for every method queued and unused, a setWebhook that
\* names a header scenario was answered.
C35_SetWebhookPastScenarios ==
    \E i, j \in DOMAIN log :
        /\ AddedForAll(i)
        /\ ScenarioByOid(log[i].req.oid).used = 0
        /\ i < j
        /\ log[j].plane = "bot"
        /\ log[j].req = SetWebhookRateLimit
        /\ AnsweredOk(log[j])

\* The deliveries completed for the token that were sent to the configuration
\* the Set of entry n installed: those that began after it.
SentTo(token, n) ==
    {j \in CompletedSince(token, n) : log[j].req.at >= n}

\* The entries that wrote the token's registration.
WritesOf(token) ==
    {i \in DOMAIN log : log[i].req.method \in {"Set", "Delete"} /\ log[i].req.token = token}

\* A deleted registration stays deleted until the next Set.
DeletedStaysDeleted ==
    \A token \in RegistryTokens :
        (WritesOf(token) # {} /\ log[Latest(WritesOf(token))].req.method = "Delete")
            => token \notin DOMAIN webhooks

\* C36: the outcome of a delivery is recorded only on the webhook
\* configuration it was sent to: a configuration installed by Set while a
\* delivery to the old one is in flight is not changed by that delivery's
\* completion, so its last error follows only the deliveries sent to it, and
\* the completion of a delivery does not re-create a deleted entry.
C36_OutcomeOnlyOnOwnConfiguration ==
    /\ DeletedStaysDeleted
    /\ \A token \in DOMAIN webhooks :
          LET cfg == webhooks[token]
              J == SentTo(token, cfg.oid)
          IN  IF J = {} THEN NothingNoted(cfg)
              ELSE ErrorNoted(cfg) <=> ~log[Latest(J)].resp.Success

\* A Set replaced the configuration while a delivery was in flight, which
\* then failed.
C36_ReplacedDuringFailedDelivery ==
    \E j, k \in DOMAIN log :
        /\ DuringDelivery(k, j)
        /\ log[k].req.method = "Set"
        /\ log[k].req.token = log[j].req.token
        /\ ~log[j].resp.Success
        /\ log[j].req.token \in DOMAIN webhooks
        /\ webhooks[log[j].req.token].oid = k

\* ------------------------------------------ getUpdates against a webhook
\* getUpdates with and without an offset, with updates queued, while the
\* token's webhook is set and deleted.

MaxConflictRequests == 2
MaxConflictControls == 2

ConflictRequests == {SetWebhook, DeleteWebhook, GetUpdatesAll, GetUpdatesFrom("2")}

InitConflict == ServerNew(EmptyMap) /\ Budget(MaxConflictRequests, MaxConflictControls)

NextConflict ==
    \/ \E t \in Threads, r \in ConflictRequests : HandleStart(t, r)
    \/ \E t \in Threads : HandleFinish(t)
    \/ ControlAddUpdate(Nil)

SpecConflict == InitConflict /\ [][NextConflict]_vars

\* The exchange e is a getUpdates answered with the webhook conflict.
AnsweredConflict(e) == e.req.method = "getUpdates" /\ e.resp.status = 409

\* C37: a getUpdates request answered with 409 because a webhook is active
\* leaves the update queue unchanged, also when it carries offset > 0: no
\* update is acknowledged or removed by it.
C37_ConflictLeavesQueue ==
    [][Completes(AnsweredConflict) => updates' = updates]_vars

\* A getUpdates with offset 2 was answered 409 while the update with id 1 was
\* queued, and the update is queued still.
C37_ConflictWithOffsetOverQueued ==
    \E i \in BotEntries :
        /\ log[i].req = GetUpdatesFrom("2")
        /\ log[i].resp.status = 409
        /\ Len(updates) > 0
        /\ IdOf(updates[1]) = 1
        /\ \E k \in 1..(i - 1) : log[k].req.method = "addUpdate"

\* ------------------------------------------------- two bots on one server
\* Token1 acknowledges and drops updates; Token2 only asks for the updates,
\* with no offset, so nothing Token2 does removes one.

MaxTwoBotsRequests == 2
MaxTwoBotsControls == 2

DropPending == JsonBody([drop_pending_updates |-> Bool(TRUE)])

TwoBotsRequests ==
    {GetUpdatesFrom("2"), GetUpdatesAll,
     Request(Token1, "setWebhook", EmptyMap, DropPending, "", ""),
     Request(Token1, "deleteWebhook", EmptyMap, DropPending, "", ""),
     GetUpdatesFor(Token2)}

InitTwoBots == ServerNew(EmptyMap) /\ Budget(MaxTwoBotsRequests, MaxTwoBotsControls)

NextTwoBots ==
    \/ \E t \in Threads, r \in TwoBotsRequests : HandleStart(t, r)
    \/ \E t \in Threads : HandleFinish(t)
    \/ ControlAddUpdate(Nil)

SpecTwoBots == InitTwoBots /\ [][NextTwoBots]_vars

\* How many updates had been injected when the request of entry j arrived.
InjectedOnArrival(j) == Cardinality({m \in 1..log[j].at : IsAddUpdate(m)})

\* Entry j is a getUpdates of Token2 that returned updates.
SecondBotRead(j) ==
    /\ log[j].plane = "bot"
    /\ log[j].req = GetUpdatesFor(Token2)
    /\ GetUpdatesOk(j)

\* Entry i is a request of Token1 that removes updates: a getUpdates with an
\* offset, or a webhook call that drops the pending updates.
FirstBotRemoval(i) ==
    /\ log[i].plane = "bot"
    /\ log[i].req.token = Token1
    /\ log[i].req \notin {GetUpdatesAll}

\* C38: the updates returned to one token's getUpdates do not depend on
\* requests made with a different token: a getUpdates with offset > 0, or a
\* setWebhook/deleteWebhook with drop_pending_updates = true, issued with
\* token A never removes an update that a later getUpdates with token B
\* would otherwise return. Token2 removes nothing itself, so each of its
\* getUpdates returns every update injected before it arrived.
C38_OtherTokenRemovesNothing ==
    \A j \in DOMAIN log :
        SecondBotRead(j) =>
            \A n \in 1..InjectedOnArrival(j) :
                \E x \in DOMAIN Returned(j) : Returned(j)[x].payload = n

\* An update was injected, Token1 made a removing request, and Token2 asked
\* for the updates afterwards.
C38_RemovalThenSecondBotRead ==
    \E m, i, j \in DOMAIN log :
        /\ IsAddUpdate(m)
        /\ m < i
        /\ FirstBotRemoval(i)
        /\ log[i].at >= m
        /\ SecondBotRead(j)
        /\ i <= log[j].at

\* --------------------------------------------- the engine and scenario ids
\* Add with and without an id supplied by the caller, Remove and Clear.

MaxIdOps == 4

\* Scenarios as callers hand them to Add: with no id, with an id of the
\* caller's own, and with an id of the form the engine generates.
IdScenarios ==
    {[MatchScenario("sendMessage", 1, EmptyMap) EXCEPT !.ID = id] :
        id \in {Nil, <<"mine", 1>>, ScenarioName(1)}}

RemovedIds == {<<"mine", 1>>, ScenarioName(1), ScenarioName(2)}

\* Engine.Clear.
EClear ==
    /\ calls.ctls < budget.ctls
    /\ scenarios' = EngineClear(scenarios)
    /\ log' = Append(log, EngineLog([method |-> "Clear"], Len(scenarios)))
    /\ calls' = [calls EXCEPT !.ctls = @ + 1]
    /\ UNCHANGED <<registryEnabled, tokens, engineIdCounter, updates, queueIdCounter,
                   webhooks, requests, recorderIdCounter, faker, fakers,
                   builtinErrors, thr, hist, budget>>

InitEngineIds == ServerNew(EmptyMap) /\ Budget(0, MaxIdOps)

NextEngineIds ==
    \/ \E s \in IdScenarios : EAdd(s)
    \/ \E id \in RemovedIds : ERemove(id)
    \/ EClear

SpecEngineIds == InitEngineIds /\ [][NextEngineIds]_vars

\* The scenarios held have pairwise distinct ids.
DistinctIds ==
    \A i, j \in DOMAIN scenarios : i # j => scenarios[i].ID # scenarios[j].ID

\* C39: after any sequence of Add, Remove and Clear calls, with ids supplied
\* by the caller or generated, all scenarios held by the engine have pairwise
\* distinct ids, so that right after a Remove(id) that found a scenario none
\* with that id is held.
C39_IdsDistinct ==
    /\ DistinctIds
    /\ (/\ Len(log) > 0
        /\ log[Len(log)].req.method = "Remove"
        /\ log[Len(log)].resp)
           => \A i \in DOMAIN scenarios : scenarios[i].ID # log[Len(log)].req.id

\* A scenario with a supplied id and one with a generated id are held, and a
\* Remove has found a scenario.
C39_SuppliedAndGeneratedHeld ==
    /\ \E i, j \in DOMAIN scenarios :
          scenarios[i].ID = <<"mine", 1>> /\ scenarios[j].ID = ScenarioName(1)
    /\ \E k \in DOMAIN log : log[k].req.method = "Remove" /\ log[k].resp

\* --------------------------------------------------- what reset leaves alone
\* reset on a server with a banned token, next to setWebhook, getUpdates and
\* injected updates.

MaxKeptRequests == 1
MaxKeptControls == 3

KeptRequests == {SetWebhook, GetUpdatesAll, SendMessageBanned}

InitKept == ServerNew(ConfiguredTokens) /\ Budget(MaxKeptRequests, MaxKeptControls)

NextKept ==
    \/ \E t \in Threads, r \in KeptRequests : HandleStart(t, r)
    \/ \E t \in Threads : HandleFinish(t)
    \/ ControlAddUpdate(Nil)
    \/ \E t \in Threads : ControlResetScenarios(t)
    \/ \E t \in Threads : ControlResetUpdates(t)
    \/ \E t \in Threads : ControlResetRequests(t)

SpecKept == InitKept /\ [][NextKept]_vars

\* This step is one of reset's three.
ResetStep ==
    \E t \in Threads :
        \/ thr[t].pc = "idle" /\ thr'[t].pc = "resetUpdates"
        \/ thr[t].pc = "resetUpdates" /\ thr'[t].pc = "resetRequests"
        \/ thr[t].pc = "resetRequests" /\ thr'[t].pc = "idle"

\* Entry i is a reset that has answered.
IsReset(i) == log[i].plane = "control" /\ log[i].req.method = "reset"

\* Entry m injected an update and was told the id assigned to it.
IdAssigned(m) == IsAddUpdate(m) /\ log[m].resp.status = 201

\* What follows for the exchanges: the banned token is answered 403, a
\* getUpdates under a webhook 409, and the ids told to the injections increase.
KeptFacts ==
    /\ \A i \in BotEntries :
          /\ log[i].req = SendMessageBanned => log[i].resp.status = 403
          /\ GetUpdatesUnderWebhook(i) => log[i].resp.status = 409
    /\ \A m, k \in DOMAIN log :
          (IdAssigned(m) /\ IdAssigned(k) /\ m < k) =>
              ValOf(log[m].resp.body["update_id"]) < ValOf(log[k].resp.body["update_id"])

====
